---------------------------- MODULE Spec2Model ----------------------------
(***************************************************************************)
(* State-machine model of the ChatHelpBot moderation core:                 *)
(*   - the sliding-window spam detector and the antispam filter chain      *)
(*     (src/src/handlers/moderation/antispam.py, filters.py),              *)
(*   - the permission queries (src/src/common/permissions.py),             *)
(*   - slash and bare-word moderation commands, buttons and warns          *)
(*     (commands.py, text_commands.py, callbacks.py, warns.py).            *)
(*                                                                         *)
(* Time is the UTC clock in whole seconds.  Python's None is modelled by   *)
(* the falsy value of the same type: 0 for ids, <<>> for strings/lists,    *)
(* NoTime for an absent timestamp.                                         *)
(***************************************************************************)
EXTENDS Integers, Sequences, FiniteSets, TLC

VARIABLES
    now,                \* datetime.now(timezone.utc), in seconds
    nextMsgId,          \* message_id the platform gives the next update
    user_messages,      \* antispam.user_messages: key -> <<(ts, msg_id), ...>>
    recent_spam_mutes,  \* antispam.recent_spam_mutes: key -> ts of last mute
    message_stats,      \* MessageStats.message_count of the chat's row of today
    username_cache,     \* text_commands.username_cache (LRU, oldest first)
    warns,              \* rows of the Warn table, in insertion order
    arrivals,           \* history: every (ts, msg_id) fed to the detector
    last,               \* history: inputs and effects of the last handler run
    chats,              \* rows of the Chat table, by chat_id
    stats_rows,         \* rows of the MessageStats table, in insertion order
    permissions,        \* the platform's can_send_messages of each chat
    coroutines          \* handler runs in flight: where each one stands

\* The state of the handlers that run to completion in one step.
handler_vars == <<now, nextMsgId, user_messages, recent_spam_mutes, message_stats,
                  username_cache, warns, arrivals, last>>

\* The state of the handlers that are followed from await to await.
task_vars == <<chats, stats_rows, permissions, coroutines>>

vars == <<now, nextMsgId, user_messages, recent_spam_mutes, message_stats,
          username_cache, warns, arrivals, last, chats, stats_rows,
          permissions, coroutines>>

-----------------------------------------------------------------------------
(* Program constants                                                       *)

SPAM_MAX_MESSAGES == 4
SPAM_TIME_WINDOW == 3
SPAM_MUTE_DURATION == 300
SPAM_MUTE_COOLDOWN_SECONDS == 10
MAX_WARNS == 3
MIN_MUTE_SECONDS == 30
MAX_USERNAME_CACHE_SIZE == 10000

(* Bounds of the model                                                     *)

DetMaxTime == 5         \* SpecDetector: last clock value
DetMaxMsgs == 7         \* SpecDetector: number of arrivals
ChainMaxTime == 10      \* SpecChain: last clock value
ChainMaxMsgs == 10      \* SpecChain: number of group messages
GateMaxTime == 1        \* SpecGate: last clock value
GateMaxMsgs == 5        \* SpecGate: number of group messages
CmdMaxMsgs == 2         \* SpecCmd: number of commands
WarnMaxMsgs == 5        \* SpecWarn: number of warn commands
GuardMaxMsgs == 3       \* SpecGuard: number of messages and commands
MuteMaxTime == 1        \* SpecMute: seconds of clock
MuteMaxMsgs == 2        \* SpecMute: number of commands
MaxTasks == 3           \* handler runs followed from await to await
SetupMaxTasks == 3      \* SpecSetup: number of /setup and deactivation runs
ReopenMaxTime == 2      \* SpecReopen: seconds
ReopenMaxTasks == 2     \* SpecReopen: number of posts and button presses
PostDelay == 2          \* SpecReopen: close_chat_duration of the chat, seconds
ParseMaxPieces == 3     \* SpecParse: pieces of a word
StatsMaxTasks == 3      \* SpecStats: number of messages
StatsMaxDays == 1       \* SpecStats: midnights
FilterMaxRows == 3      \* SpecFilters: rows of the UserFilter table
FloodMaxTime == 1       \* SpecFlood: seconds of clock
FloodMaxMsgs == 7       \* SpecFlood: number of messages
FloodMaxTasks == 2      \* SpecFlood: handlers followed await by await

NoTime == -1

\* parse_timedelta's None
None == -1

-----------------------------------------------------------------------------
(* Actors of the model                                                     *)

GroupChat == 100        \* a group chat
PrivateChat == 7        \* a private chat with the bot
BotId == 9              \* bot.id
Alice == 1
Bob == 2
Carol == 3
Users == {Alice, Bob, Carol}

SpamKey == <<GroupChat, Bob>>
OtherChat == 101        \* another group chat
ChatIds == {GroupChat, OtherChat}
Keys == {<<c, u>> : c \in ChatIds, u \in Users}

-----------------------------------------------------------------------------
(* Sequence helpers                                                        *)

RECURSIVE SeqMap(_, _)
SeqMap(Op(_), s) ==
    IF s = <<>> THEN <<>> ELSE <<Op(Head(s))>> \o SeqMap(Op, Tail(s))

Range(s) == {s[i] : i \in 1..Len(s)}

-----------------------------------------------------------------------------
(* Sliding-window spam detector                                            *)

\* Variant: the prune keeps an entry that is exactly SPAM_TIME_WINDOW old.
clean_old_messages_keeps_boundary(um, key, t) ==
    [um EXCEPT ![key] = SelectSeq(@, LAMBDA e : e[1] >= t - SPAM_TIME_WINDOW)]

\* Variant: nothing is pruned.
clean_old_messages_never(um, key, t) == um

\* cutoff = now - window; keep (ts, msg_id) with ts > cutoff.  The map is a
\* defaultdict: a key never seen holds the empty list.
clean_old_messages(um, key, t) ==
    [um EXCEPT ![key] = SelectSeq(@, LAMBDA e : e[1] > t - SPAM_TIME_WINDOW)]

MsgIdOf(e) == e[2]

\* Variant: the arrival is recorded under the user in every chat.
check_and_get_spam_messages_by_user(um, key, message_id, t) ==
    LET cleaned == clean_old_messages(um, key, t)
        added   == [k \in DOMAIN cleaned |->
                       IF k[2] = key[2] THEN Append(cleaned[k], <<t, message_id>>)
                       ELSE cleaned[k]]
    IN  IF Len(added[key]) > SPAM_MAX_MESSAGES
        THEN [um |-> added, spam |-> TRUE, ids |-> SeqMap(MsgIdOf, added[key])]
        ELSE [um |-> added, spam |-> FALSE, ids |-> <<>>]

\* Returns the new map and the result: spam = FALSE stands for None,
\* otherwise ids is the list of message ids of the key's list.
check_and_get_spam_messages(um, key, message_id, t) ==
    LET cleaned == clean_old_messages(um, key, t)
        added   == [cleaned EXCEPT ![key] = Append(@, <<t, message_id>>)]
    IN  IF Len(added[key]) > SPAM_MAX_MESSAGES
        THEN [um |-> added, spam |-> TRUE, ids |-> SeqMap(MsgIdOf, added[key])]
        ELSE [um |-> added, spam |-> FALSE, ids |-> <<>>]

-----------------------------------------------------------------------------
(* Strings are sequences of one-character strings                          *)

lower_char(c) ==
    CASE c = "A" -> "a"
      [] c = "B" -> "b"
      [] c = "D" -> "d"
      [] c = "U+0414" -> "U+0434"
      [] OTHER   -> c

\* str.lower()
lower(s) == SeqMap(lower_char, s)

\* str.strip(): drops leading and trailing blanks
RECURSIVE lstrip(_)
lstrip(s) == IF s # <<>> /\ Head(s) = " " THEN lstrip(Tail(s)) ELSE s

RECURSIVE rstrip(_)
rstrip(s) ==
    IF s # <<>> /\ s[Len(s)] = " " THEN rstrip(SubSeq(s, 1, Len(s) - 1)) ELSE s

strip(s) == rstrip(lstrip(s))

\* `p in s` for strings
contains(s, p) ==
    \E i \in 0..(Len(s) - Len(p)) : SubSeq(s, i + 1, i + Len(p)) = p

\* str.split(","): the pieces between commas, empty pieces kept
RECURSIVE split_comma(_)
split_comma(s) ==
    IF \A i \in 1..Len(s) : s[i] # ","
    THEN <<s>>
    ELSE LET i == CHOOSE j \in 1..Len(s) :
                      s[j] = "," /\ \A k \in 1..(j - 1) : s[k] # ","
         IN  <<SubSeq(s, 1, i - 1)>> \o split_comma(SubSeq(s, i + 1, Len(s)))

-----------------------------------------------------------------------------
(* The platform (Telegram Bot API) as the handlers see it                  *)

full_name(u) ==
    CASE u = Alice -> <<"A", "l">>
      [] u = Bob   -> <<"B", "o">>
      [] u = Carol -> <<"C", "a">>
      [] OTHER     -> <<"?">>

\* user.username as the platform sends it (mixed case); Carol has none
username_of(u) ==
    CASE u = Alice -> <<"A", "b">>
      [] u = Bob   -> <<"B", "a">>
      [] OTHER     -> <<>>

\* An answer of bot.get_chat_member: ok = FALSE is a raised exception.
Member(status, can_restrict, can_delete) ==
    [ok |-> TRUE, status |-> status, can_restrict_members |-> can_restrict,
     can_delete_messages |-> can_delete]

MemberError ==
    [ok |-> FALSE, status |-> "error", can_restrict_members |-> FALSE,
     can_delete_messages |-> FALSE]

\* A call issued to the platform.  arg = 0: no until_date.  tag: the
\* permissions, keyword or text of the call, as a tuple of words.
Call(method, chat, target, arg, tag) ==
    [method |-> method, chat |-> chat, target |-> target, arg |-> arg,
     tag |-> tag]

CallRestrict(chat, user, until, perms) == Call("restrict_chat_member", chat, user, until, perms)
CallBan(chat, user, until) == Call("ban_chat_member", chat, user, until, <<>>)
CallUnban(chat, user) == Call("unban_chat_member", chat, user, 0, <<"only_if_banned">>)
CallDelete(chat, msg_id) == Call("delete_message", chat, 0, msg_id, <<>>)
CallAnswer(tag) == Call("answer", 0, 0, 0, tag)
CallSend(to, tag) == Call("send_message", to, 0, 0, tag)

\* The auto-mute notice: message.answer with get_unmute_keyboard(user_id)
CallNotice(user) == Call("answer", 0, user, 0, <<"auto_mute", "unmute">>)

Methods(calls) == {calls[i].method : i \in 1..Len(calls)}

-----------------------------------------------------------------------------
(* Permission queries: src/src/common/permissions.py                       *)

\* Variant: a failed get_chat_member counts as "is admin".
is_user_admin_fail_open(resp) ==
    ~resp.ok \/ resp.status \in {"administrator", "creator"}

is_user_admin(resp) ==
    IF resp.ok THEN resp.status \in {"administrator", "creator"} ELSE FALSE

\* Variant: a failed get_chat_member counts as "bot can restrict".
can_bot_restrict_fail_open(resp) ==
    ~resp.ok \/ (resp.status = "administrator" /\ resp.can_restrict_members)

\* isinstance(bot_member, ChatMemberAdministrator) <=> status = administrator
can_bot_restrict(resp) ==
    IF resp.ok
    THEN IF resp.status = "administrator" THEN resp.can_restrict_members ELSE FALSE
    ELSE FALSE

can_bot_delete(resp) ==
    IF resp.ok
    THEN IF resp.status = "administrator" THEN resp.can_delete_messages ELSE FALSE
    ELSE FALSE

-----------------------------------------------------------------------------
(* Username cache: text_commands.LRUUsernameCache                          *)
(* data: the dict's items; order: LRUUsernameCache._order                  *)

EmptyCache == [data |-> {}, order |-> <<>>]

CacheKeys(c) == {e.key : e \in c.data}

RECURSIVE RemoveFirst(_, _)
RemoveFirst(s, x) ==
    IF s = <<>> THEN <<>>
    ELSE IF Head(s) = x THEN Tail(s) ELSE <<Head(s)>> \o RemoveFirst(Tail(s), x)

RECURSIVE cache_evict(_, _)
cache_evict(c, maxsize) ==
    IF Cardinality(c.data) > maxsize
    THEN cache_evict([data  |-> {e \in c.data : e.key # Head(c.order)},
                      order |-> Tail(c.order)], maxsize)
    ELSE c

\* LRUUsernameCache.__setitem__
cache_setitem(c, key, value, maxsize) ==
    LET order1 == IF key \in CacheKeys(c) THEN RemoveFirst(c.order, key) ELSE c.order
        data1  == {e \in c.data : e.key # key} \cup {[key |-> key, value |-> value]}
    IN  cache_evict([data |-> data1, order |-> Append(order1, key)], maxsize)

\* cache_user(chat_id, user)
cache_user(c, chat_id, user) ==
    IF username_of(user) # <<>>
    THEN cache_setitem(c, <<chat_id, lower(username_of(user))>>,
                       <<user, full_name(user)>>, MAX_USERNAME_CACHE_SIZE)
    ELSE c

-----------------------------------------------------------------------------
(* Store rows read by the filter chain                                     *)

\* A Chat row; exists = FALSE: scalar_one_or_none() gave None.
ChatRow(exists, bad_words_enabled, activated_by) ==
    [exists |-> exists, bad_words_enabled |-> bad_words_enabled,
     activated_by |-> activated_by]

\* A UserFilter row.
FilterRow(chat_id, user_id, filter_type, pattern, is_active, notify) ==
    [chat_id |-> chat_id, user_id |-> user_id, filter_type |-> filter_type,
     pattern |-> pattern, is_active |-> is_active, notify |-> notify]

\* data/bad_words.txt, line by line
bad_words_file == << <<" ", "A", "b", " ">>, <<" ">> >>

-----------------------------------------------------------------------------
(* Message filters: src/src/handlers/moderation/filters.py                 *)

\* {line.strip().lower() for line in f if line.strip()}
load_bad_words ==
    {lower(strip(bad_words_file[i])) :
        i \in {j \in 1..Len(bad_words_file) : strip(bad_words_file[j]) # <<>>}}

contains_bad_word(text) ==
    IF load_bad_words = {} THEN FALSE
    ELSE \E word \in load_bad_words : contains(lower(text), word)

get_message_text(msg) ==
    IF msg.text # <<>> THEN msg.text
    ELSE IF msg.caption # <<>> THEN msg.caption
    ELSE <<>>

should_filter_message(text_lower, f) ==
    LET raw      == split_comma(f.pattern)
        patterns == [i \in 1..Len(raw) |-> lower(strip(raw[i]))]
        hit      == \E i \in 1..Len(patterns) :
                        patterns[i] # <<>> /\ contains(text_lower, patterns[i])
    IN  IF f.filter_type = "block" THEN hit
        ELSE IF f.filter_type = "allow" THEN ~hit
        ELSE FALSE

\* The calls of notify_admin_about_filter.
notify_admin_about_filter(chat_row) ==
    IF ~chat_row.exists \/ chat_row.activated_by = 0 THEN <<>>
    ELSE <<CallSend(chat_row.activated_by, <<"filter_notice">>)>>

RECURSIVE first_matching_filter(_, _)
first_matching_filter(text_lower, fs) ==
    IF fs = <<>> THEN <<>>
    ELSE IF should_filter_message(text_lower, Head(fs)) THEN <<Head(fs)>>
    ELSE first_matching_filter(text_lower, Tail(fs))

\* Variant: the select does not look at is_active.
check_user_filters_inactive_too(msg, filters, chat_row) ==
    LET text == get_message_text(msg)
        mine == SelectSeq(filters, LAMBDA f : /\ f.chat_id = msg.chat
                                              /\ f.user_id = msg.from_user)
        hit  == first_matching_filter(lower(text), mine)
    IN  IF msg.from_user = 0 \/ text = <<>> \/ mine = <<>> \/ hit = <<>>
        THEN <<>>
        ELSE (IF hit[1].notify THEN notify_admin_about_filter(chat_row) ELSE <<>>)
             \o <<CallDelete(msg.chat, msg.message_id)>>

\* The calls of check_user_filters; filters: the UserFilter table.
check_user_filters(msg, filters, chat_row) ==
    LET text == get_message_text(msg)
        mine == SelectSeq(filters, LAMBDA f : /\ f.chat_id = msg.chat
                                              /\ f.user_id = msg.from_user
                                              /\ f.is_active)
        hit  == first_matching_filter(lower(text), mine)
    IN  IF msg.from_user = 0 \/ text = <<>> \/ mine = <<>> \/ hit = <<>>
        THEN <<>>
        ELSE (IF hit[1].notify THEN notify_admin_about_filter(chat_row) ELSE <<>>)
             \o <<CallDelete(msg.chat, msg.message_id)>>

\* Variant: the banned-word stage deletes but lets the chain go on.
check_bad_words_never_stops(msg, chat_row) ==
    LET text == get_message_text(msg)
    IN  IF msg.from_user = 0 \/ text = <<>> THEN [deleted |-> FALSE, calls |-> <<>>]
        ELSE IF ~chat_row.exists \/ ~chat_row.bad_words_enabled
        THEN [deleted |-> FALSE, calls |-> <<>>]
        ELSE IF contains_bad_word(text)
        THEN [deleted |-> FALSE,
              calls   |-> <<CallDelete(msg.chat, msg.message_id)>>]
        ELSE [deleted |-> FALSE, calls |-> <<>>]

\* deleted: the value returned; calls: the delete attempted.
check_bad_words(msg, chat_row) ==
    LET text == get_message_text(msg)
    IN  IF msg.from_user = 0 \/ text = <<>> THEN [deleted |-> FALSE, calls |-> <<>>]
        ELSE IF ~chat_row.exists \/ ~chat_row.bad_words_enabled
        THEN [deleted |-> FALSE, calls |-> <<>>]
        ELSE IF contains_bad_word(text)
        THEN [deleted |-> TRUE,
              calls   |-> <<CallDelete(msg.chat, msg.message_id)>>]
        ELSE [deleted |-> FALSE, calls |-> <<>>]

-----------------------------------------------------------------------------
(* The filter chain: antispam.antispam_handler                             *)

\* Variant: the cooldown never suppresses a mute.
in_cooldown_never(last_mute, t) == FALSE

\* Variant: a mute exactly SPAM_MUTE_COOLDOWN_SECONDS old still suppresses.
in_cooldown_inclusive(last_mute, t) ==
    last_mute # NoTime /\ t - last_mute <= SPAM_MUTE_COOLDOWN_SECONDS

\* last_mute and (now - last_mute).total_seconds() < COOLDOWN
in_cooldown(last_mute, t) ==
    last_mute # NoTime /\ t - last_mute < SPAM_MUTE_COOLDOWN_SECONDS

\* A run of the handler: the state it leaves, the platform calls it issued
\* (in order) and the stages it went through.
Run(um, rsm, stats, cache) ==
    [um |-> um, rsm |-> rsm, stats |-> stats, cache |-> cache,
     calls |-> <<>>, stages |-> <<>>, spam |-> FALSE, ids |-> <<>>]

delete_calls(chat, ids) == [i \in 1..Len(ids) |-> CallDelete(chat, ids[i])]

\* Variant: the mute does not clear the key's list.
spam_mute_keeps_list(r, msg, env, t) ==
    IF ~env.restrict_ok
    THEN [r EXCEPT !.calls = @ \o <<CallRestrict(msg.chat, msg.from_user,
                                                 t + SPAM_MUTE_DURATION, <<"mute">>)>>]
    ELSE [r EXCEPT !.rsm = [@ EXCEPT ![<<msg.chat, msg.from_user>>] = t],
                   !.calls = @ \o <<CallRestrict(msg.chat, msg.from_user,
                                                 t + SPAM_MUTE_DURATION, <<"mute">>)>>
                               \o delete_calls(msg.chat, r.ids)
                               \o <<CallNotice(msg.from_user)>>]

\* Variant: the cooldown timestamp is recorded before the restrict call.
spam_mute_records_first(r, msg, env, t) ==
    IF ~env.restrict_ok
    THEN [r EXCEPT !.rsm = [@ EXCEPT ![<<msg.chat, msg.from_user>>] = t],
                   !.calls = @ \o <<CallRestrict(msg.chat, msg.from_user,
                                                 t + SPAM_MUTE_DURATION, <<"mute">>)>>]
    ELSE [r EXCEPT !.rsm = [@ EXCEPT ![<<msg.chat, msg.from_user>>] = t],
                   !.um = [@ EXCEPT ![<<msg.chat, msg.from_user>>] = <<>>],
                   !.calls = @ \o <<CallRestrict(msg.chat, msg.from_user,
                                                 t + SPAM_MUTE_DURATION, <<"mute">>)>>
                               \o delete_calls(msg.chat, r.ids)
                               \o <<CallNotice(msg.from_user)>>]

\* The try block of the spam path (antispam.py lines 124-153).
spam_mute(r, msg, env, t) ==
    LET key      == <<msg.chat, msg.from_user>>
        restrict == CallRestrict(msg.chat, msg.from_user,
                                 t + SPAM_MUTE_DURATION, <<"mute">>)
    IN  IF ~env.restrict_ok
        THEN [r EXCEPT !.calls = @ \o <<restrict>>]
        ELSE [r EXCEPT !.rsm = [@ EXCEPT ![key] = t],
                       !.um = [@ EXCEPT ![key] = <<>>],
                       !.calls = @ \o <<restrict>> \o delete_calls(msg.chat, r.ids)
                                   \o <<CallNotice(msg.from_user)>>]

\* update_message_stats: upsert of today's row
update_message_stats(count) == count + 1

\* Statistics, banned words, per-user filters (antispam.py lines 155-163).
chain_tail(r, msg, env) ==
    LET r1 == [r EXCEPT !.stats = update_message_stats(@),
                        !.stages = @ \o <<"stats">>]
        bw == check_bad_words(msg, env.chat_row)
        r2 == [r1 EXCEPT !.stages = @ \o <<"bad_words">>, !.calls = @ \o bw.calls]
    IN  IF bw.deleted THEN r2
        ELSE [r2 EXCEPT !.stages = @ \o <<"user_filters">>,
                        !.calls = @ \o check_user_filters(msg, env.filters, env.chat_row)]

\* Variant: the cooldown branch deletes and lets the chain go on.
cooldown_branch_continues(r, msg, env) ==
    chain_tail([r EXCEPT !.calls = @ \o <<CallDelete(msg.chat, msg.message_id)>>],
               msg, env)

\* The cooldown branch (antispam.py lines 116-122): delete, return.
cooldown_branch(r, msg, env) ==
    [r EXCEPT !.calls = @ \o <<CallDelete(msg.chat, msg.message_id)>>]

\* Variant: admins are not exempt.
early_exit_never(env) == FALSE

\* The two early returns of antispam.py lines 98-104, in order; the bot's
\* membership is asked for only when the sender is no admin.
early_exit(env) ==
    IF is_user_admin(env.sender) THEN TRUE
    ELSE ~can_bot_restrict(env.bot)

antispam_handler(um, rsm, stats, cache, t, msg, env) ==
    LET key == <<msg.chat, msg.from_user>>
        r0  == Run(um, rsm, stats, cache)
    IN  IF msg.from_user = 0 THEN r0
        ELSE
        LET r1 == [r0 EXCEPT !.cache = cache_user(@, msg.chat, msg.from_user),
                             !.stages = <<"cache", "permissions">>]
        IN  IF early_exit(env) THEN r1
            ELSE
            LET det == check_and_get_spam_messages(um, key, msg.message_id, t)
                r2  == [r1 EXCEPT !.um = det.um, !.spam = det.spam,
                                  !.ids = det.ids,
                                  !.stages = @ \o <<"detector">>]
            IN  IF det.spam
                THEN IF in_cooldown(rsm[key], t)
                     THEN cooldown_branch(r2, msg, env)
                     ELSE chain_tail(spam_mute(r2, msg, env, t), msg, env)
                ELSE chain_tail(r2, msg, env)

-----------------------------------------------------------------------------
(* Durations: src/src/utils.py                                             *)

Digits == <<"0", "1", "2", "3", "4", "5", "6", "7", "8", "9">>

IsDigit(c) == \E i \in 1..Len(Digits) : Digits[i] = c

DigitVal(c) == (CHOOSE i \in 1..Len(Digits) : Digits[i] = c) - 1

\* str.isdigit()
isdigit(s) == s # <<>> /\ \A i \in 1..Len(s) : IsDigit(s[i])

\* int(s) of a string of digits
RECURSIVE to_int(_)
to_int(s) ==
    IF s = <<>> THEN 0
    ELSE to_int(SubSeq(s, 1, Len(s) - 1)) * 10 + DigitVal(s[Len(s)])

\* The Cyrillic letters of the modifiers, written by their code points:
\* the letters of week, day, hour, minute, second, and capital "day".
CyrWeek == "U+043D"
CyrDay == "U+0434"
CyrHour == "U+0447"
CyrMinute == "U+043C"
CyrSecond == "U+0441"
CyrCapitalDay == "U+0414"

\* The character class of TIME_PATTERN's modifier group
IsModifier(c) ==
    c \in {"w", "d", "h", "m", "s", CyrWeek, CyrDay, CyrHour, CyrMinute, CyrSecond}

\* Variant: the Cyrillic minute letter read as a month of thirty days.
TIME_MULTIPLIERS_month(c) ==
    CASE c \in {"w", CyrWeek} -> 604800
      [] c \in {"d", CyrDay}  -> 86400
      [] c \in {"h", CyrHour} -> 3600
      [] c = "m"              -> 60
      [] c = CyrMinute        -> 2592000
      [] c \in {"s", CyrSecond} -> 1
      [] OTHER                -> 0

\* TIME_MULTIPLIERS; 0: the letter is no key of the dict
TIME_MULTIPLIERS(c) ==
    CASE c = "w"       -> 604800
      [] c = "d"       -> 86400
      [] c = "h"       -> 3600
      [] c = "m"       -> 60
      [] c = "s"       -> 1
      [] c = CyrWeek   -> 604800
      [] c = CyrDay    -> 86400
      [] c = CyrHour   -> 3600
      [] c = CyrMinute -> 60
      [] c = CyrSecond -> 1
      [] OTHER         -> 0

\* Last position of the run of digits that starts at position i.
RECURSIVE run_end(_, _)
run_end(s, i) == IF i < Len(s) /\ IsDigit(s[i + 1]) THEN run_end(s, i + 1) ELSE i

\* TIME_PATTERN.findall from position i on: the (value, modifier) pairs of
\* the matches, left to right.  A run of digits matches with the letter
\* that follows it, if that letter is a modifier.
RECURSIVE findall(_, _)
findall(s, i) ==
    IF i > Len(s) THEN <<>>
    ELSE IF ~IsDigit(s[i]) THEN findall(s, i + 1)
    ELSE IF run_end(s, i) < Len(s) /\ IsModifier(s[run_end(s, i) + 1])
    THEN <<[value |-> SubSeq(s, i, run_end(s, i)),
            modifier |-> s[run_end(s, i) + 1]]>>
         \o findall(s, run_end(s, i) + 2)
    ELSE findall(s, run_end(s, i) + 1)

\* total_seconds of the loop over the matches
RECURSIVE total_seconds(_)
total_seconds(matches) ==
    IF matches = <<>> THEN 0
    ELSE to_int(Head(matches).value) * TIME_MULTIPLIERS(Head(matches).modifier)
         + total_seconds(Tail(matches))

\* Variant: a total of zero is returned as a duration of zero seconds.
parse_timedelta_keeps_zero(time_str) ==
    IF time_str = <<>> THEN None
    ELSE IF findall(lower(time_str), 1) = <<>> THEN None
    ELSE total_seconds(findall(lower(time_str), 1))

\* parse_timedelta: the seconds of the timedelta, or None
parse_timedelta(time_str) ==
    IF time_str = <<>> THEN None
    ELSE IF findall(lower(time_str), 1) = <<>> THEN None
    ELSE IF total_seconds(findall(lower(time_str), 1)) = 0 THEN None
    ELSE total_seconds(findall(lower(time_str), 1))

-----------------------------------------------------------------------------
(* Command messages and the answers of the platform                        *)

\* A command message.  reply_to: the sender of the replied-to message (0:
\* no reply); args: the words after the command word; text_mention: the
\* user of a text_mention entity (0: none).
CommandMessage(chat, chat_type, from_user, reply_to, args, text_mention, message_id) ==
    [chat |-> chat, chat_type |-> chat_type, from_user |-> from_user,
     reply_to |-> reply_to, args |-> args, text_mention |-> text_mention,
     message_id |-> message_id]

\* An answer of bot.get_chat: ok = FALSE is a raised exception.
ChatInfo(id) ==
    [ok |-> TRUE, id |-> id, full_name |-> full_name(id),
     username |-> username_of(id)]

ChatError == [ok |-> FALSE, id |-> 0, full_name |-> <<>>, username |-> <<>>]

\* The Chat row as are_moderation_cmds_enabled reads it.
ModRow(exists, enable_moderation_cmds) ==
    [exists |-> exists, enable_moderation_cmds |-> enable_moderation_cmds]

\* What one command run meets: the Chat row, the answers of
\* get_chat_member for the actor, the bot and the target, the answers of
\* get_chat to the handler and to add_warn, and whether the mutating call
\* succeeds; unban_ok: whether the unban of a kick, its second call, does.
CommandEnv(chat_row, actor, bot, target, get_chat, enrich, call_ok) ==
    [chat_row |-> chat_row, actor |-> actor, bot |-> bot, target |-> target,
     get_chat |-> get_chat, enrich |-> enrich, call_ok |-> call_ok,
     unban_ok |-> TRUE]

startswith_at(s) == s # <<>> /\ Head(s) = "@"

\* str.lstrip("@")
RECURSIVE lstrip_at(_)
lstrip_at(s) == IF s # <<>> /\ Head(s) = "@" THEN lstrip_at(Tail(s)) ELSE s

-----------------------------------------------------------------------------
(* Guards of the moderation commands: src/src/handlers/moderation/utils.py *)

are_moderation_cmds_enabled(chat_row) ==
    IF chat_row.exists THEN chat_row.enable_moderation_cmds ELSE TRUE

\* The error text, <<>> for None.
check_admin_permissions(msg, env, error_msg) ==
    IF msg.chat_type = "private" THEN <<"group_only">>
    ELSE IF ~is_user_admin(env.actor) THEN <<"not_admin">>
    ELSE IF ~can_bot_restrict(env.bot) THEN error_msg
    ELSE <<>>

\* Variant: the admin lookup comes before the comparisons with the actor
\* and the bot.
check_target_user_admin_first(msg, env, user_id, action_name) ==
    IF is_user_admin(env.target) THEN <<"cannot_admin", action_name>>
    ELSE IF user_id = msg.from_user THEN <<"cannot_self", action_name>>
    ELSE IF user_id = BotId THEN <<"cannot_me", action_name>>
    ELSE <<>>

\* The error text, <<>> for None.
check_target_user(msg, env, user_id, action_name) ==
    IF user_id = msg.from_user THEN <<"cannot_self", action_name>>
    ELSE IF user_id = BotId THEN <<"cannot_me", action_name>>
    ELSE IF is_user_admin(env.target) THEN <<"cannot_admin", action_name>>
    ELSE <<>>

-----------------------------------------------------------------------------
(* Slash commands: src/src/handlers/moderation/commands.py                 *)

NoTarget == [user_id |-> 0, user_name |-> <<>>]

get_target_user(msg, env) ==
    IF msg.reply_to # 0
    THEN [user_id |-> msg.reply_to, user_name |-> full_name(msg.reply_to)]
    ELSE IF msg.args = <<>> THEN NoTarget
    ELSE LET first_arg == msg.args[1]
         IN  IF isdigit(first_arg)
             THEN [user_id |-> to_int(first_arg), user_name |-> <<"ID:">> \o first_arg]
             ELSE IF startswith_at(first_arg) /\ env.get_chat.ok /\ env.get_chat.id # 0
             THEN [user_id   |-> env.get_chat.id,
                   user_name |-> IF env.get_chat.full_name # <<>>
                                 THEN env.get_chat.full_name
                                 ELSE IF env.get_chat.username # <<>>
                                 THEN env.get_chat.username
                                 ELSE first_arg]
             ELSE NoTarget

\* duration in seconds (0: None) and the words of the reason (<<>>: None)
parse_command_args(msg) ==
    LET start_idx == IF msg.reply_to # 0 THEN 0 ELSE 1
        remaining == SubSeq(msg.args, start_idx + 1, Len(msg.args))
    IN  IF Len(msg.args) <= start_idx THEN [duration |-> 0, reason |-> <<>>]
        ELSE IF parse_timedelta(remaining[1]) > 0
        THEN [duration |-> parse_timedelta(remaining[1]), reason |-> Tail(remaining)]
        ELSE [duration |-> 0, reason |-> remaining]

\* Variant: the report is sent after the failure report as well.
attempt_reports_anyway(calls, call_ok, report, failed) ==
    IF call_ok THEN calls \o <<CallAnswer(report)>>
    ELSE <<calls[1], CallAnswer(failed), CallAnswer(report)>>

\* What the try block of a handler issues: the mutating calls and the
\* report, or the calls up to the one that raises and the failure report.
attempt(calls, call_ok, report, failed) ==
    IF call_ok THEN calls \o <<CallAnswer(report)>>
    ELSE <<calls[1], CallAnswer(failed)>>

\* Variant: no call carries an until-time.
until_date_never(duration, t) == 0

until_date(duration, t) == IF duration # 0 THEN t + duration ELSE 0

\* The try block of a kick: ban, then unban with only_if_banned, then the
\* report; the first call that raises is followed by the failure answer.
kick(chat, user_id, env) ==
    IF ~env.call_ok
    THEN <<CallBan(chat, user_id, 0), CallAnswer(<<"kick_failed">>)>>
    ELSE IF ~env.unban_ok
    THEN <<CallBan(chat, user_id, 0), CallUnban(chat, user_id),
           CallAnswer(<<"kick_failed">>)>>
    ELSE <<CallBan(chat, user_id, 0), CallUnban(chat, user_id),
           CallAnswer(<<"kick_report">>)>>

cmd_ban(msg, env, t) ==
    IF ~are_moderation_cmds_enabled(env.chat_row) THEN <<>>
    ELSE
    LET error  == check_admin_permissions(msg, env, <<"no_ban_rights">>)
        target == get_target_user(msg, env)
        terror == check_target_user(msg, env, target.user_id, "ban")
        parsed == parse_command_args(msg)
    IN  IF error # <<>> THEN <<CallAnswer(error)>>
        ELSE IF target.user_id = 0 THEN <<CallAnswer(<<"specify_user">>)>>
        ELSE IF terror # <<>> THEN <<CallAnswer(terror)>>
        ELSE attempt(<<CallBan(msg.chat, target.user_id,
                               until_date(parsed.duration, t))>>,
                     env.call_ok, <<"ban_report">>, <<"ban_failed">>)

cmd_unban(msg, env) ==
    IF ~are_moderation_cmds_enabled(env.chat_row) THEN <<>>
    ELSE IF msg.chat_type = "private" THEN <<CallAnswer(<<"group_only">>)>>
    ELSE IF ~is_user_admin(env.actor) THEN <<CallAnswer(<<"not_admin">>)>>
    ELSE IF ~can_bot_restrict(env.bot) THEN <<CallAnswer(<<"no_manage_rights">>)>>
    ELSE
    LET target == get_target_user(msg, env)
    IN  IF target.user_id = 0 THEN <<CallAnswer(<<"specify_user">>)>>
        ELSE attempt(<<CallUnban(msg.chat, target.user_id)>>,
                     env.call_ok, <<"unban_report">>, <<"unban_failed">>)

\* Variant: /mute without the floor on the duration.
cmd_mute_no_floor(msg, env, t) ==
    IF ~are_moderation_cmds_enabled(env.chat_row) THEN <<>>
    ELSE
    LET error  == check_admin_permissions(msg, env, <<"no_restrict_rights">>)
        target == get_target_user(msg, env)
        terror == check_target_user(msg, env, target.user_id, "mute")
        parsed == parse_command_args(msg)
    IN  IF error # <<>> THEN <<CallAnswer(error)>>
        ELSE IF target.user_id = 0 THEN <<CallAnswer(<<"specify_user">>)>>
        ELSE IF terror # <<>> THEN <<CallAnswer(terror)>>
        ELSE attempt(<<CallRestrict(msg.chat, target.user_id,
                                    until_date(parsed.duration, t), <<"mute">>)>>,
                     env.call_ok, <<"mute_report">>, <<"mute_failed">>)

cmd_mute(msg, env, t) ==
    IF ~are_moderation_cmds_enabled(env.chat_row) THEN <<>>
    ELSE
    LET error  == check_admin_permissions(msg, env, <<"no_restrict_rights">>)
        target == get_target_user(msg, env)
        terror == check_target_user(msg, env, target.user_id, "mute")
        parsed == parse_command_args(msg)
    IN  IF error # <<>> THEN <<CallAnswer(error)>>
        ELSE IF target.user_id = 0 THEN <<CallAnswer(<<"specify_user">>)>>
        ELSE IF terror # <<>> THEN <<CallAnswer(terror)>>
        ELSE IF parsed.duration # 0 /\ parsed.duration < MIN_MUTE_SECONDS
        THEN <<CallAnswer(<<"mute_too_short">>)>>
        ELSE attempt(<<CallRestrict(msg.chat, target.user_id,
                                    until_date(parsed.duration, t), <<"mute">>)>>,
                     env.call_ok, <<"mute_report">>, <<"mute_failed">>)

cmd_unmute(msg, env) ==
    IF ~are_moderation_cmds_enabled(env.chat_row) THEN <<>>
    ELSE IF msg.chat_type = "private" THEN <<CallAnswer(<<"group_only">>)>>
    ELSE IF ~is_user_admin(env.actor) THEN <<CallAnswer(<<"not_admin">>)>>
    ELSE IF ~can_bot_restrict(env.bot) THEN <<CallAnswer(<<"no_manage_rights">>)>>
    ELSE
    LET target == get_target_user(msg, env)
    IN  IF target.user_id = 0 THEN <<CallAnswer(<<"specify_user">>)>>
        ELSE attempt(<<CallRestrict(msg.chat, target.user_id, 0, <<"unmute">>)>>,
                     env.call_ok, <<"unmute_report">>, <<"unmute_failed">>)

cmd_kick(msg, env) ==
    IF ~are_moderation_cmds_enabled(env.chat_row) THEN <<>>
    ELSE
    LET error  == check_admin_permissions(msg, env, <<"no_kick_rights">>)
        target == get_target_user(msg, env)
        terror == check_target_user(msg, env, target.user_id, "kick")
    IN  IF error # <<>> THEN <<CallAnswer(error)>>
        ELSE IF target.user_id = 0 THEN <<CallAnswer(<<"specify_user">>)>>
        ELSE IF terror # <<>> THEN <<CallAnswer(terror)>>
        ELSE kick(msg.chat, target.user_id, env)

\* The dispatcher's choice among the Command(...) handlers.
slash_command(command, msg, env, t) ==
    CASE command = "ban"    -> cmd_ban(msg, env, t)
      [] command = "unban"  -> cmd_unban(msg, env)
      [] command = "mute"   -> cmd_mute(msg, env, t)
      [] command = "unmute" -> cmd_unmute(msg, env)
      [] command = "kick"   -> cmd_kick(msg, env)

-----------------------------------------------------------------------------
(* Bare-word commands: src/src/handlers/moderation/text_commands.py        *)

\* Variant: a read leaves the recency list as it is.
cache_getitem_no_touch(c, key) ==
    [value |-> (CHOOSE e \in c.data : e.key = key).value, cache |-> c]

\* LRUUsernameCache.__getitem__: the key becomes the most recent one.
cache_getitem(c, key) ==
    [value |-> (CHOOSE e \in c.data : e.key = key).value,
     cache |-> IF key \in Range(c.order)
               THEN [c EXCEPT !.order = Append(RemoveFirst(@, key), key)]
               ELSE c]

\* get_cached_user: (user_id, full_name), user_id = 0 for (None, None)
get_cached_user(c, chat_id, username) ==
    IF <<chat_id, lower(lstrip_at(username))>> \in CacheKeys(c)
    THEN [user_id   |-> cache_getitem(c, <<chat_id, lower(lstrip_at(username))>>).value[1],
          user_name |-> cache_getitem(c, <<chat_id, lower(lstrip_at(username))>>).value[2],
          cache     |-> cache_getitem(c, <<chat_id, lower(lstrip_at(username))>>).cache]
    ELSE [user_id |-> 0, user_name |-> <<>>, cache |-> c]

\* args: the words of args_text.  user_arg <<>>, duration 0, reason <<>>
\* stand for None.
parse_text_command_args(args, has_reply) ==
    IF args = <<>> THEN [user_arg |-> <<>>, duration |-> 0, reason |-> <<>>]
    ELSE
    LET user_arg  == IF has_reply THEN <<>> ELSE args[1]
        remaining == IF has_reply THEN args ELSE Tail(args)
    IN  IF remaining = <<>>
        THEN [user_arg |-> user_arg, duration |-> 0, reason |-> <<>>]
        ELSE IF parse_timedelta(remaining[1]) > 0
        THEN [user_arg |-> user_arg, duration |-> parse_timedelta(remaining[1]),
              reason |-> Tail(remaining)]
        ELSE [user_arg |-> user_arg, duration |-> 0, reason |-> remaining]

\* chat.full_name or chat.username or user_arg
chat_name(chat, user_arg) ==
    IF chat.full_name # <<>> THEN chat.full_name
    ELSE IF chat.username # <<>> THEN chat.username
    ELSE user_arg

\* resolve_user_arg for an @username, cached: the answer of get_cached_user.
resolve_username(user_arg, msg, env, cached) ==
    IF cached.user_id # 0 THEN cached
    ELSE IF msg.text_mention # 0
    THEN [user_id |-> msg.text_mention,
          user_name |-> full_name(msg.text_mention), cache |-> cached.cache]
    ELSE IF env.get_chat.ok /\ env.get_chat.id # 0
    THEN [user_id |-> env.get_chat.id,
          user_name |-> chat_name(env.get_chat, user_arg),
          cache |-> cache_setitem(cached.cache,
                                  <<msg.chat, lower(lstrip_at(user_arg))>>,
                                  <<env.get_chat.id, chat_name(env.get_chat, user_arg)>>,
                                  MAX_USERNAME_CACHE_SIZE)]
    ELSE [user_id |-> 0, user_name |-> <<>>, cache |-> cached.cache]

\* (user_id, name) and the cache as the lookup leaves it
resolve_user_arg(user_arg, msg, env, c) ==
    IF isdigit(user_arg)
    THEN [user_id |-> to_int(user_arg), user_name |-> <<"ID:">> \o user_arg,
          cache |-> c]
    ELSE IF ~startswith_at(user_arg)
    THEN [user_id |-> 0, user_name |-> <<>>, cache |-> c]
    ELSE resolve_username(user_arg, msg, env, get_cached_user(c, msg.chat, user_arg))

\* The context of a command without reply, parsed: its arguments,
\* resolved: the answer of resolve_user_arg.  found = FALSE stands for None.
context_of_args(parsed, resolved, c) ==
    IF parsed.user_arg = <<>>
    THEN [found |-> FALSE, user_id |-> 0, user_name |-> <<>>,
          duration |-> 0, reason |-> <<>>, cache |-> c]
    ELSE IF resolved.user_id = 0
    THEN [found |-> FALSE, user_id |-> 0, user_name |-> <<>>,
          duration |-> 0, reason |-> <<>>, cache |-> resolved.cache]
    ELSE [found |-> TRUE, user_id |-> resolved.user_id,
          user_name |-> resolved.user_name, duration |-> parsed.duration,
          reason |-> parsed.reason, cache |-> resolved.cache]

build_moderation_context(msg, env, c) ==
    IF msg.reply_to # 0
    THEN [found |-> TRUE, user_id |-> msg.reply_to,
          user_name |-> full_name(msg.reply_to),
          duration |-> parse_text_command_args(msg.args, TRUE).duration,
          reason |-> parse_text_command_args(msg.args, TRUE).reason, cache |-> c]
    ELSE context_of_args(parse_text_command_args(msg.args, FALSE),
                         resolve_user_arg(parse_text_command_args(msg.args, FALSE).user_arg,
                                          msg, env, c),
                         c)

get_action_verb(command) ==
    IF command \in {"mute", "ban", "unmute", "unban", "kick"} THEN command
    ELSE "moderate"

\* The error text, <<>> for None.
check_text_cmd_permissions(env) ==
    IF ~is_user_admin(env.actor) THEN <<"not_admin">>
    ELSE IF ~can_bot_restrict(env.bot) THEN <<"no_moderation_rights">>
    ELSE <<>>

execute_mute(msg, env, ctx, t) ==
    IF ctx.duration # 0 /\ ctx.duration < MIN_MUTE_SECONDS
    THEN <<CallAnswer(<<"mute_too_short">>)>>
    ELSE attempt(<<CallRestrict(msg.chat, ctx.user_id,
                                until_date(ctx.duration, t), <<"mute">>)>>,
                 env.call_ok, <<"mute_report">>, <<"mute_failed">>)

execute_ban(msg, env, ctx, t) ==
    attempt(<<CallBan(msg.chat, ctx.user_id, until_date(ctx.duration, t))>>,
            env.call_ok, <<"ban_report">>, <<"ban_failed">>)

execute_unmute(msg, env, ctx) ==
    attempt(<<CallRestrict(msg.chat, ctx.user_id, 0, <<"unmute">>)>>,
            env.call_ok, <<"unmute_report">>, <<"unmute_failed">>)

execute_unban(msg, env, ctx) ==
    attempt(<<CallUnban(msg.chat, ctx.user_id)>>,
            env.call_ok, <<"unban_report">>, <<"unban_failed">>)

execute_kick(msg, env, ctx) == kick(msg.chat, ctx.user_id, env)

\* text_moderation_command from the target guard on; ctx: the context.
moderate(command, msg, env, ctx, t) ==
    IF ~ctx.found THEN <<CallAnswer(<<"specify_user", command>>)>>
    ELSE IF check_target_user(msg, env, ctx.user_id, get_action_verb(command)) # <<>>
    THEN <<CallAnswer(check_target_user(msg, env, ctx.user_id,
                                        get_action_verb(command)))>>
    ELSE CASE command = "mute"   -> execute_mute(msg, env, ctx, t)
           [] command = "unmute" -> execute_unmute(msg, env, ctx)
           [] command = "ban"    -> execute_ban(msg, env, ctx, t)
           [] command = "unban"  -> execute_unban(msg, env, ctx)
           [] command = "kick"   -> execute_kick(msg, env, ctx)

with_context(command, msg, env, ctx, t) ==
    [calls |-> moderate(command, msg, env, ctx, t), cache |-> ctx.cache]

\* command: group(1) of TEXT_CMD_PATTERN in lower case, by its Latin word.
\* Returns the calls and the cache.
text_moderation_command(command, msg, env, c, t) ==
    IF msg.chat_type = "private" THEN [calls |-> <<>>, cache |-> c]
    ELSE IF ~are_moderation_cmds_enabled(env.chat_row)
    THEN [calls |-> <<>>, cache |-> c]
    ELSE IF check_text_cmd_permissions(env) # <<>>
    THEN [calls |-> <<CallAnswer(check_text_cmd_permissions(env))>>, cache |-> c]
    ELSE with_context(command, msg, env, build_moderation_context(msg, env, c), t)

-----------------------------------------------------------------------------
(* Buttons: src/src/handlers/moderation/callbacks.py                       *)

\* A press of a button.  has_message: callback.message is there; data_user:
\* the id after the colon of callback.data (0: the data does not parse);
\* has_text: the pressed message has text.
CallbackQuery(chat, from_user, has_message, data_user, has_text) ==
    [chat |-> chat, from_user |-> from_user, has_message |-> has_message,
     data_user |-> data_user, has_text |-> has_text]

CallAlert(tag) == Call("answer_callback_query", 0, 0, 0, tag)

CallEdit(chat, tag) == Call("edit_message", chat, 0, 0, tag)

callback_edit(callback, note) ==
    IF callback.has_text THEN CallEdit(callback.chat, <<"edit_text", note>>)
    ELSE CallEdit(callback.chat, <<"edit_reply_markup">>)

callback_unban(callback, env) ==
    IF ~callback.has_message \/ callback.from_user = 0
    THEN <<CallAlert(<<"error">>)>>
    ELSE IF ~is_user_admin(env.actor) THEN <<CallAlert(<<"admins_only">>)>>
    ELSE IF callback.data_user = 0 THEN <<CallAlert(<<"data_error">>)>>
    ELSE IF env.call_ok
    THEN <<CallUnban(callback.chat, callback.data_user),
           CallAlert(<<"unbanned">>), callback_edit(callback, "unbanned")>>
    ELSE <<CallUnban(callback.chat, callback.data_user), CallAlert(<<"failed">>)>>

\* Variant: the unmute button without the admin check.
callback_unmute_unchecked(callback, env) ==
    IF ~callback.has_message \/ callback.from_user = 0
    THEN <<CallAlert(<<"error">>)>>
    ELSE IF callback.data_user = 0 THEN <<CallAlert(<<"data_error">>)>>
    ELSE <<CallRestrict(callback.chat, callback.data_user, 0, <<"unmute">>),
           CallAlert(<<"unmuted">>), callback_edit(callback, "unmuted")>>

callback_unmute(callback, env) ==
    IF ~callback.has_message \/ callback.from_user = 0
    THEN <<CallAlert(<<"error">>)>>
    ELSE IF ~is_user_admin(env.actor) THEN <<CallAlert(<<"admins_only">>)>>
    ELSE IF callback.data_user = 0 THEN <<CallAlert(<<"data_error">>)>>
    ELSE IF env.call_ok
    THEN <<CallRestrict(callback.chat, callback.data_user, 0, <<"unmute">>),
           CallAlert(<<"unmuted">>), callback_edit(callback, "unmuted")>>
    ELSE <<CallRestrict(callback.chat, callback.data_user, 0, <<"unmute">>),
           CallAlert(<<"failed">>)>>

-----------------------------------------------------------------------------
(* Warns: src/src/handlers/moderation/warns.py                             *)

\* A row of the Warn table; user_id 0 and username <<>> stand for NULL.
WarnRow(chat_id, user_id, username, warned_by) ==
    [chat_id |-> chat_id, user_id |-> user_id, username |-> username,
     warned_by |-> warned_by]

\* Variant: the UPDATE reaches only the rows that match by user id.
update_rows_by_id(rows, chat_id, user_id, username) ==
    [i \in 1..Len(rows) |->
        IF rows[i].chat_id = chat_id /\ rows[i].user_id = user_id
        THEN [rows[i] EXCEPT !.user_id = user_id, !.username = username]
        ELSE rows[i]]

\* UPDATE ... SET user_id, username WHERE chat_id AND (user_id OR username)
update_rows(rows, chat_id, user_id, username) ==
    [i \in 1..Len(rows) |->
        IF /\ rows[i].chat_id = chat_id
           /\ \/ rows[i].user_id = user_id
              \/ rows[i].username = username
        THEN [rows[i] EXCEPT !.user_id = user_id, !.username = username]
        ELSE rows[i]]

\* The tail of find_and_merge_user_data, both identifiers looked up.
merge_found(rows, chat_id, found_user_id, found_username) ==
    [rows |-> IF found_user_id # 0 /\ found_username # <<>>
              THEN update_rows(rows, chat_id, found_user_id, found_username)
              ELSE rows,
     user_id |-> found_user_id, username |-> found_username]

\* The rows of the table and the (user_id, username) found.  LIMIT 1
\* without ORDER BY: the first matching row in insertion order.
find_and_merge_user_data(rows, chat_id, user_id, username) ==
    LET by_name == SelectSeq(rows, LAMBDA r : /\ r.chat_id = chat_id
                                               /\ r.username = username
                                               /\ r.user_id # 0)
        by_id   == SelectSeq(rows, LAMBDA r : /\ r.chat_id = chat_id
                                               /\ r.user_id = user_id
                                               /\ r.username # <<>>)
    IN  merge_found(rows, chat_id,
                    IF username # <<>> /\ user_id = 0 /\ by_name # <<>>
                    THEN by_name[1].user_id ELSE user_id,
                    IF user_id # 0 /\ username = <<>> /\ by_id # <<>>
                    THEN by_id[1].username ELSE username)

\* env.enrich: the answer of the get_chat call made here.
enrich_user_data_via_api(env, user_id, username) ==
    IF user_id # 0 /\ username # <<>>
    THEN [user_id |-> user_id, username |-> username]
    ELSE IF username # <<>> /\ user_id = 0 /\ env.enrich.ok /\ env.enrich.id # 0
    THEN [user_id |-> env.enrich.id, username |-> username]
    ELSE IF user_id # 0 /\ username = <<>> /\ env.enrich.ok
            /\ env.enrich.username # <<>>
    THEN [user_id |-> user_id, username |-> lower(env.enrich.username)]
    ELSE [user_id |-> user_id, username |-> username]

\* SELECT count(id) by user_id if there is one, else by username
count_rows(rows, chat_id, user_id, username) ==
    IF user_id # 0
    THEN Len(SelectSeq(rows, LAMBDA r : r.chat_id = chat_id /\ r.user_id = user_id))
    ELSE IF username # <<>>
    THEN Len(SelectSeq(rows, LAMBDA r : r.chat_id = chat_id /\ r.username = username))
    ELSE 0

count_merged(chat_id, merged) ==
    [rows  |-> merged.rows,
     count |-> count_rows(merged.rows, chat_id, merged.user_id, merged.username)]

\* The rows after the merge and the count.
get_user_warns_count(rows, chat_id, user_id, username) ==
    count_merged(chat_id,
                 find_and_merge_user_data(rows, chat_id, user_id, lower(username)))

\* add_warn from the insert on; the identifiers the new row is written
\* with, the rows after the merge.
insert_and_count(rows, chat_id, final_user_id, final_username, warned_by) ==
    [rows  |-> get_user_warns_count(
                   Append(rows, WarnRow(chat_id, final_user_id, final_username,
                                        warned_by)),
                   chat_id, final_user_id, final_username).rows,
     count |-> get_user_warns_count(
                   Append(rows, WarnRow(chat_id, final_user_id, final_username,
                                        warned_by)),
                   chat_id, final_user_id, final_username).count,
     final_user_id |-> final_user_id, final_username |-> final_username]

\* add_warn after the merge; enriched, merged: the two lookups' answers.
add_merged(chat_id, warned_by, enriched, merged) ==
    insert_and_count(merged.rows, chat_id,
                     IF merged.user_id # 0 THEN merged.user_id
                     ELSE enriched.user_id,
                     IF merged.username # <<>> THEN merged.username
                     ELSE enriched.username,
                     warned_by)

add_enriched(rows, chat_id, warned_by, enriched) ==
    add_merged(chat_id, warned_by, enriched,
               find_and_merge_user_data(rows, chat_id, enriched.user_id,
                                        enriched.username))

\* The rows after the insert and the merges, the count returned and the
\* identifiers the new row was written with.
add_warn(rows, chat_id, user_id, username, warned_by, env) ==
    add_enriched(rows, chat_id, warned_by,
                 enrich_user_data_via_api(env, user_id, lower(username)))

\* The DELETE of remove_user_warns; merged: the answer of the merge.
delete_merged(chat_id, user_id, username_lower, merged) ==
    LET hit(r) == /\ r.chat_id = chat_id
                  /\ IF merged.user_id # 0 THEN r.user_id = merged.user_id
                     ELSE IF merged.username # <<>> THEN r.username = merged.username
                     ELSE IF user_id # 0 THEN r.user_id = user_id
                     ELSE r.username = username_lower
    IN  IF merged.user_id = 0 /\ merged.username = <<>> /\ user_id = 0
           /\ username_lower = <<>>
        THEN [rows |-> merged.rows, count |-> 0]
        ELSE [rows  |-> SelectSeq(merged.rows, LAMBDA r : ~hit(r)),
              count |-> Len(SelectSeq(merged.rows, hit))]

\* The rows left and the number of rows deleted.
remove_user_warns(rows, chat_id, user_id, username) ==
    delete_merged(chat_id, user_id, lower(username),
                  find_and_merge_user_data(rows, chat_id, user_id, lower(username)))

\* extract_username(user)
extract_username(user) == lower(username_of(user))

NoWarnTarget == [user_id |-> 0, username |-> <<>>, user_name |-> <<>>]

get_target_from_reply(msg) ==
    IF msg.reply_to # 0
    THEN [user_id |-> msg.reply_to, username |-> extract_username(msg.reply_to),
          user_name |-> full_name(msg.reply_to)]
    ELSE NoWarnTarget

get_target_from_args(args, env) ==
    IF args = <<>> THEN NoWarnTarget
    ELSE
    LET first_arg == args[1]
        username  == lower(lstrip_at(first_arg))
    IN  IF startswith_at(first_arg)
        THEN IF env.get_chat.ok /\ env.get_chat.id # 0
             THEN [user_id |-> env.get_chat.id, username |-> username,
                   user_name |-> IF env.get_chat.full_name # <<>>
                                 THEN env.get_chat.full_name
                                 ELSE IF env.get_chat.username # <<>>
                                 THEN env.get_chat.username
                                 ELSE first_arg]
             ELSE [user_id |-> 0, username |-> username, user_name |-> first_arg]
        ELSE IF isdigit(first_arg)
        THEN [user_id |-> to_int(first_arg), username |-> <<>>,
              user_name |-> <<"ID:">> \o first_arg]
        ELSE NoWarnTarget

\* The error text, <<>> for None.
check_warn_target(msg, env, user_id) ==
    IF user_id = 0 THEN <<>>
    ELSE IF user_id = msg.from_user THEN <<"cannot_warn_self">>
    ELSE IF user_id = BotId THEN <<"cannot_warn_me">>
    ELSE IF is_user_admin(env.target) THEN <<"cannot_warn_admin">>
    ELSE <<>>

\* Variant: a ban that raises removes the warns all the same.
try_ban_for_warns_removes(msg, env, target, warn_count, rows) ==
    IF warn_count < MAX_WARNS \/ target.user_id = 0
    THEN [banned |-> FALSE, calls |-> <<>>, rows |-> rows]
    ELSE IF ~can_bot_restrict(env.bot)
    THEN [banned |-> FALSE, calls |-> <<>>, rows |-> rows]
    ELSE [banned |-> TRUE,
          calls  |-> <<CallBan(msg.chat, target.user_id, 0),
                       CallAnswer(IF env.call_ok THEN <<"warn_ban_report">>
                                  ELSE <<"ban_failed">>)>>,
          rows   |-> remove_user_warns(rows, msg.chat, target.user_id,
                                       target.username).rows]

\* banned: the value returned; calls; the rows of the table afterwards.
try_ban_for_warns(msg, env, target, warn_count, rows) ==
    IF warn_count < MAX_WARNS \/ target.user_id = 0
    THEN [banned |-> FALSE, calls |-> <<>>, rows |-> rows]
    ELSE IF ~can_bot_restrict(env.bot)
    THEN [banned |-> FALSE, calls |-> <<>>, rows |-> rows]
    ELSE IF env.call_ok
    THEN [banned |-> TRUE,
          calls  |-> <<CallBan(msg.chat, target.user_id, 0),
                       CallAnswer(<<"warn_ban_report">>)>>,
          rows   |-> remove_user_warns(rows, msg.chat, target.user_id,
                                       target.username).rows]
    ELSE [banned |-> TRUE,
          calls  |-> <<CallBan(msg.chat, target.user_id, 0),
                       CallAnswer(<<"ban_failed">>)>>,
          rows   |-> rows]

\* The result of a warn command: the calls, the rows of the table, and for
\* the history whether add_warn ran, what it returned and the id it wrote.
WarnResult(calls, rows) ==
    [calls |-> calls, rows |-> rows, added |-> FALSE, count |-> 0,
     final_user_id |-> 0]

\* The end of a warn: the ban's report, or send_warn_message.
warn_outcome(warned, ban) ==
    [calls |-> IF ban.banned THEN ban.calls ELSE <<CallAnswer(<<"warn_report">>)>>,
     rows  |-> ban.rows, added |-> TRUE, count |-> warned.count,
     final_user_id |-> warned.final_user_id]

warn_added(msg, env, target, warned) ==
    warn_outcome(warned,
                 try_ban_for_warns(msg, env, target, warned.count, warned.rows))

\* check_warn_target, add_warn, try_ban_for_warns, send_warn_message: the
\* tail shared by cmd_warn and handle_text_warn.
handle_text_warn(msg, env, target, rows) ==
    IF check_warn_target(msg, env, target.user_id) # <<>>
    THEN WarnResult(<<CallAnswer(check_warn_target(msg, env, target.user_id))>>, rows)
    ELSE warn_added(msg, env, target,
                    add_warn(rows, msg.chat, target.user_id, target.username,
                             msg.from_user, env))

\* The target of a warn command: the reply's sender, else the argument.
warn_target(msg, env) ==
    IF msg.reply_to # 0 THEN get_target_from_reply(msg)
    ELSE get_target_from_args(msg.args, env)

warn_to(msg, env, target, rows) ==
    IF target.user_id = 0 /\ target.username = <<>>
    THEN WarnResult(<<CallAnswer(<<"specify_user">>)>>, rows)
    ELSE handle_text_warn(msg, env, target, rows)

cmd_warn(msg, env, rows) ==
    IF msg.chat_type = "private"
    THEN WarnResult(<<CallAnswer(<<"group_only">>)>>, rows)
    ELSE IF ~are_moderation_cmds_enabled(env.chat_row) THEN WarnResult(<<>>, rows)
    ELSE IF ~is_user_admin(env.actor)
    THEN WarnResult(<<CallAnswer(<<"not_admin">>)>>, rows)
    ELSE warn_to(msg, env, warn_target(msg, env), rows)

unwarn_removed(removed) ==
    WarnResult(<<CallAnswer(IF removed.count > 0 THEN <<"warns_removed">>
                            ELSE <<"no_warns">>)>>,
               removed.rows)

handle_text_unwarn(msg, target, rows) ==
    unwarn_removed(remove_user_warns(rows, msg.chat, target.user_id,
                                     target.username))

unwarn_to(msg, target, rows) ==
    IF target.user_id = 0 /\ target.username = <<>>
    THEN WarnResult(<<CallAnswer(<<"specify_user">>)>>, rows)
    ELSE handle_text_unwarn(msg, target, rows)

cmd_unwarn(msg, env, rows) ==
    IF msg.chat_type = "private"
    THEN WarnResult(<<CallAnswer(<<"group_only">>)>>, rows)
    ELSE IF ~are_moderation_cmds_enabled(env.chat_row) THEN WarnResult(<<>>, rows)
    ELSE IF ~is_user_admin(env.actor)
    THEN WarnResult(<<CallAnswer(<<"not_admin">>)>>, rows)
    ELSE unwarn_to(msg, warn_target(msg, env), rows)

\* The count of the target, or of the sender when no target is given.
warns_of(msg, target, rows) ==
    WarnResult(<<CallAnswer(<<"warns_count">>)>>,
               IF target.user_id # 0 \/ target.username # <<>>
               THEN get_user_warns_count(rows, msg.chat, target.user_id,
                                         target.username).rows
               ELSE get_user_warns_count(rows, msg.chat, msg.from_user,
                                         extract_username(msg.from_user)).rows)

handle_text_warns_check(msg, env, rows) ==
    warns_of(msg, warn_target(msg, env), rows)

cmd_warns(msg, env, rows) ==
    IF msg.chat_type = "private"
    THEN WarnResult(<<CallAnswer(<<"group_only">>)>>, rows)
    ELSE handle_text_warns_check(msg, env, rows)

text_warn_to(command, msg, env, target, rows) ==
    IF target.user_id = 0 /\ target.username = <<>>
    THEN WarnResult(<<CallAnswer(<<"specify_user">>)>>, rows)
    ELSE IF command = "unwarn" THEN handle_text_unwarn(msg, target, rows)
    ELSE handle_text_warn(msg, env, target, rows)

\* command: group(1) of WARN_CMD_PATTERN in lower case, by its Latin word.
text_warn_command(command, msg, env, rows) ==
    IF msg.chat_type = "private" THEN WarnResult(<<>>, rows)
    ELSE IF ~are_moderation_cmds_enabled(env.chat_row) THEN WarnResult(<<>>, rows)
    ELSE IF command = "warns" THEN handle_text_warns_check(msg, env, rows)
    ELSE IF ~is_user_admin(env.actor)
    THEN WarnResult(<<CallAnswer(<<"not_admin">>)>>, rows)
    ELSE text_warn_to(command, msg, env, warn_target(msg, env), rows)

\* The dispatcher's choice among the warn handlers: "/warn" goes to the
\* Command(...) handlers, "!warn" to text_warn_command.
warn_command(form, command, msg, env, rows) ==
    IF form = "text" THEN text_warn_command(command, msg, env, rows)
    ELSE CASE command = "warn"   -> cmd_warn(msg, env, rows)
           [] command = "unwarn" -> cmd_unwarn(msg, env, rows)
           [] command = "warns"  -> cmd_warns(msg, env, rows)

-----------------------------------------------------------------------------
(* Handlers followed from await to await: the dispatcher runs every update *)
(* as a task of its own (bot.py: dp.start_polling), so the runs of two     *)
(* handlers interleave at their awaits.                                    *)

TaskIds == 1..MaxTasks

\* A row of the Chat table (database/models.py).
Chat(is_active, activated_by, is_closed) ==
    [exists |-> TRUE, is_active |-> is_active, activated_by |-> activated_by,
     is_closed |-> is_closed]

\* No row for the chat_id.
NoChat == [exists |-> FALSE, is_active |-> FALSE, activated_by |-> 0,
           is_closed |-> FALSE]

\* A run of a handler: the handler, the await it stands at, its chat and
\* user, what it has read (flag, seen, value) and the calls it has issued.
\* raised: the run ended with an exception; at: the second it started.
Coroutine(kind, pc, chat, user) ==
    [kind |-> kind, pc |-> pc, chat |-> chat, user |-> user, flag |-> FALSE,
     seen |-> 0, value |-> 0, calls |-> <<>>, raised |-> FALSE,
     ids |-> <<>>, todo |-> <<>>, at |-> 0]

NotStarted == Coroutine("none", "none", 0, 0)

\* The run ends, with one more call or with none.
finish(co, calls) == [co EXCEPT !.pc = "done", !.calls = @ \o calls]

\* The run ends with an exception nobody catches.
raise(co) == [co EXCEPT !.pc = "done", !.raised = TRUE]

\* The first task that has not started, 0 if all have.
FreeTask ==
    IF \E i \in TaskIds : coroutines[i].kind = "none"
    THEN CHOOSE i \in TaskIds :
             /\ coroutines[i].kind = "none"
             /\ \A j \in 1..(i - 1) : coroutines[j].kind # "none"
    ELSE 0

\* select(Chat).where(Chat.is_active): the chat_ids of the active rows
active_chats(table) == {c \in ChatIds : table[c].exists /\ table[c].is_active}

-----------------------------------------------------------------------------
(* /setup and deactivation: src/src/handlers/chat/commands.py,             *)
(* src/src/handlers/admin_panel/panel.py, utils.py                         *)

is_bot_admin(resp) == resp.ok /\ resp.status = "administrator"

\* has_active_chat; scalar_one_or_none raises on two rows (see cmd_setup).
has_active_chat(table) == active_chats(table) # {}

\* activate_chat's write: UPDATE of the row it read, or INSERT.
activate_chat(table, chat_id, activated_by) ==
    [table EXCEPT ![chat_id] =
        IF @.exists THEN [@ EXCEPT !.is_active = TRUE, !.activated_by = activated_by]
        ELSE Chat(TRUE, activated_by, FALSE)]

\* One step of cmd_setup, from the await the run stands at to the next one.
\* actor, bot: the answers of get_chat_member, used by the two checks.
\* Returns the run and the table.
cmd_setup(co, table, actor, bot) ==
    CASE co.pc = "get_chat_from_db" ->
            [co |-> IF table[co.chat].exists /\ table[co.chat].is_active
                    THEN finish(co, <<CallAnswer(<<"already_active">>)>>)
                    ELSE [co EXCEPT !.pc = "has_active_chat"],
             chats |-> table]
      [] co.pc = "has_active_chat" ->
            [co |-> IF Cardinality(active_chats(table)) > 1 THEN raise(co)
                    ELSE IF has_active_chat(table)
                    THEN finish(co, <<CallAnswer(<<"active_elsewhere">>)>>)
                    ELSE [co EXCEPT !.pc = "is_user_admin"],
             chats |-> table]
      [] co.pc = "is_user_admin" ->
            [co |-> IF ~is_user_admin(actor)
                    THEN finish(co, <<CallAnswer(<<"admins_only">>)>>)
                    ELSE [co EXCEPT !.pc = "is_bot_admin"],
             chats |-> table]
      [] co.pc = "is_bot_admin" ->
            [co |-> IF ~is_bot_admin(bot)
                    THEN finish(co, <<CallAnswer(<<"need_admin_rights">>)>>)
                    ELSE [co EXCEPT !.pc = "activate_chat"],
             chats |-> table]
      [] co.pc = "activate_chat" ->
            \* get_chat_from_db inside activate_chat
            [co |-> [co EXCEPT !.pc = "commit", !.flag = table[co.chat].exists],
             chats |-> table]
      [] co.pc = "commit" ->
            \* an INSERT of a chat_id that is there by now violates the key
            IF ~co.flag /\ table[co.chat].exists
            THEN [co |-> raise(co), chats |-> table]
            ELSE [co |-> finish(co, <<CallAnswer(<<"activated">>)>>),
                  chats |-> activate_chat(table, co.chat, co.user)]

\* get_admin_chat: the chat_ids of the active rows the user activated
get_admin_chat(table, user_id) ==
    {c \in ChatIds : /\ table[c].exists /\ table[c].is_active
                     /\ table[c].activated_by = user_id}

deactivate_chat(table, chat_id) ==
    [table EXCEPT ![chat_id] = IF @.exists THEN [@ EXCEPT !.is_active = FALSE]
                               ELSE @]

\* One step of callback_deactivate_confirm.
callback_deactivate_confirm(co, table) ==
    CASE co.pc = "get_admin_chat" ->
            [co |-> IF Cardinality(get_admin_chat(table, co.user)) > 1
                    THEN raise(co)
                    ELSE IF get_admin_chat(table, co.user) = {}
                    THEN finish(co, <<CallAlert(<<"chat_not_found">>)>>)
                    ELSE [co EXCEPT !.pc = "leave_chat",
                                    !.chat = CHOOSE c \in get_admin_chat(table, co.user) : TRUE],
             chats |-> table]
      [] co.pc = "leave_chat" ->
            [co |-> [co EXCEPT !.pc = "deactivate_chat",
                               !.calls = @ \o <<Call("leave_chat", co.chat, 0, 0, <<>>)>>],
             chats |-> table]
      [] co.pc = "deactivate_chat" ->
            [co |-> finish(co, <<CallEdit(co.chat, <<"deactivated">>),
                                 CallAlert(<<>>)>>),
             chats |-> deactivate_chat(table, co.chat)]

-----------------------------------------------------------------------------
(* The auto-reply under a channel post and the owner's open/close button:  *)
(* src/src/handlers/chat/channel_posts.py, admin_panel/panel.py            *)

\* A /setup that runs from its first await to its last with no other run
\* in between: the table it leaves.
RECURSIVE setup_to_end(_, _, _, _)
setup_to_end(co, table, actor, bot) ==
    IF co.pc = "done" THEN table
    ELSE setup_to_end(cmd_setup(co, table, actor, bot).co,
                      cmd_setup(co, table, actor, bot).chats, actor, bot)

CallPermissions(chat, open) ==
    Call("set_chat_permissions", chat, 0, 0, IF open THEN <<"all">> ELSE <<"none">>)

\* set_chat_permissions at the platform; ok = FALSE: the call failed
set_chat_permissions(perms, chat, open, ok) ==
    IF ok THEN [perms EXCEPT ![chat] = open] ELSE perms

\* Variant: the reopen does not look at the row it has read.
current_chat_open_blind(table, chat_id) == TRUE

\* reopen_and_edit_message: "current_chat and not current_chat.is_closed"
current_chat_open(table, chat_id) ==
    table[chat_id].exists /\ ~table[chat_id].is_closed

\* One step of handle_channel_post, reopen_and_edit_message included.
\* configured, duration: the auto-reply settings of the row read;
\* sent: the reply was sent; ok: the platform accepted the permissions.
\* Returns the run and the permissions of the chats.
handle_channel_post(co, table, perms, t, configured, duration, sent, ok) ==
    CASE co.pc = "get_active_chat" ->
            [co |-> IF Cardinality(active_chats(table)) > 1 THEN raise(co)
                    ELSE IF co.chat \notin active_chats(table) \/ ~configured
                    THEN finish(co, <<>>)
                    ELSE IF duration > 0
                    THEN [co EXCEPT !.pc = "close_chat_temporarily", !.value = duration]
                    ELSE [co EXCEPT !.pc = "send_post_message", !.value = 0],
             permissions |-> perms]
      [] co.pc = "close_chat_temporarily" ->
            [co |-> [co EXCEPT !.pc = "send_post_message",
                               !.calls = @ \o <<CallPermissions(co.chat, FALSE)>>],
             permissions |-> set_chat_permissions(perms, co.chat, FALSE, ok)]
      [] co.pc = "send_post_message" ->
            [co |-> IF co.value > 0 /\ sent
                    THEN [co EXCEPT !.pc = "sleep", !.seen = t + co.value,
                                    !.calls = @ \o <<CallSend(co.chat, <<"post">>)>>]
                    ELSE finish(co, <<CallSend(co.chat, <<"post">>)>>),
             permissions |-> perms]
      [] co.pc = "sleep" ->
            \* the delay is over: the row is read again
            [co |-> IF current_chat_open(table, co.chat)
                    THEN [co EXCEPT !.pc = "open_chat", !.flag = TRUE]
                    ELSE finish(co, <<>>),
             permissions |-> perms]
      [] co.pc = "open_chat" ->
            [co |-> [co EXCEPT !.pc = "edit_post_message",
                               !.calls = @ \o <<CallPermissions(co.chat, TRUE)>>],
             permissions |-> set_chat_permissions(perms, co.chat, TRUE, ok)]
      [] co.pc = "edit_post_message" ->
            [co |-> finish(co, <<CallEdit(co.chat, <<"post">>)>>),
             permissions |-> perms]

toggle_chat_closed(table, chat_id, closed) ==
    [table EXCEPT ![chat_id] = IF @.exists THEN [@ EXCEPT !.is_closed = closed]
                               ELSE @]

\* One step of callback_toggle_chat; co.flag: the button was "close".
\* Returns the run, the table and the permissions.
callback_toggle_chat(co, table, perms, ok) ==
    CASE co.pc = "get_admin_chat" ->
            [co |-> IF Cardinality(get_admin_chat(table, co.user)) > 1
                    THEN raise(co)
                    ELSE IF get_admin_chat(table, co.user) = {}
                    THEN finish(co, <<CallAlert(<<"chat_not_found">>)>>)
                    ELSE [co EXCEPT !.pc = "toggle_chat_closed",
                                    !.chat = CHOOSE c \in get_admin_chat(table, co.user) : TRUE],
             chats |-> table, permissions |-> perms]
      [] co.pc = "toggle_chat_closed" ->
            [co |-> [co EXCEPT !.pc = "set_chat_permissions"],
             chats |-> toggle_chat_closed(table, co.chat, co.flag),
             permissions |-> perms]
      [] co.pc = "set_chat_permissions" ->
            [co |-> finish(co, <<CallPermissions(co.chat, ~co.flag),
                                 CallAlert(IF ok THEN <<"done">> ELSE <<"error">>)>>),
             chats |-> table,
             permissions |-> set_chat_permissions(perms, co.chat, ~co.flag, ok)]

-----------------------------------------------------------------------------
(* update_message_stats followed from await to await:                      *)
(* src/src/handlers/moderation/antispam.py                                 *)

\* A row of the MessageStats table; the id is its position in the table.
MessageStats(chat_id, date, message_count) ==
    [chat_id |-> chat_id, date |-> date, message_count |-> message_count]

\* datetime.now(timezone.utc).strftime("%Y-%m-%d"): the day, counted
today(t) == t \div 86400

\* The ids of the rows of a chat and a day.
select_stats(rows, chat_id, date) ==
    {k \in 1..Len(rows) : rows[k].chat_id = chat_id /\ rows[k].date = date}

\* One step of update_message_stats: the select, then the commit of what
\* the run made of the row it read.  co.seen: today; co.user: the id of
\* the row read; co.value: its count.  Returns the run and the table.
stats_step(co, rows) ==
    CASE co.pc = "select" ->
            [co |-> IF Cardinality(select_stats(rows, co.chat, co.seen)) > 1
                    THEN raise(co)
                    ELSE IF select_stats(rows, co.chat, co.seen) = {}
                    THEN [co EXCEPT !.pc = "commit", !.flag = FALSE]
                    ELSE [co EXCEPT !.pc = "commit", !.flag = TRUE,
                             !.user = CHOOSE k \in select_stats(rows, co.chat, co.seen) : TRUE,
                             !.value = rows[CHOOSE k \in select_stats(rows, co.chat, co.seen) : TRUE].message_count],
             stats_rows |-> rows]
      [] co.pc = "commit" ->
            [co |-> finish(co, <<>>),
             stats_rows |->
                IF co.flag
                THEN [rows EXCEPT ![co.user].message_count = co.value + 1]
                ELSE Append(rows, MessageStats(co.chat, co.seen, 1))]

-----------------------------------------------------------------------------
(* format_timedelta: src/src/utils.py                                      *)

SECONDS_IN_MINUTE == 60
SECONDS_IN_HOUR == 3600
SECONDS_IN_DAY == 86400

RECURSIVE str(_)
\* str(n) of a number that is not negative
str(n) ==
    IF n < 10 THEN <<Digits[n + 1]>>
    ELSE str(n \div 10) \o <<Digits[(n % 10) + 1]>>

\* The unit words, written by their code points
UnitDays == <<"U+0434", "U+043D", ".">>
UnitHours == <<"U+0447", ".">>
UnitMinutes == <<"U+043C", "U+0438", "U+043D", ".">>
UnitSeconds == <<"U+0441", "U+0435", "U+043A", ".">>

\* f"{value} {unit}"
part(value, unit) == str(value) \o <<" ">> \o unit

RECURSIVE join(_)
\* " ".join(parts)
join(parts) ==
    IF parts = <<>> THEN <<>>
    ELSE IF Len(parts) = 1 THEN parts[1]
    ELSE parts[1] \o <<" ">> \o join(Tail(parts))

\* The parts appended by format_timedelta after its three divmod calls
format_parts(days, hours, minutes, seconds) ==
    (IF days # 0 THEN <<part(days, UnitDays)>> ELSE <<>>)
    \o (IF hours # 0 THEN <<part(hours, UnitHours)>> ELSE <<>>)
    \o (IF minutes # 0 THEN <<part(minutes, UnitMinutes)>> ELSE <<>>)
    \o (IF seconds # 0 /\ days = 0 THEN <<part(seconds, UnitSeconds)>> ELSE <<>>)

\* Variant: the seconds are shown next to days as well.
format_timedelta_with_seconds(td) ==
    IF td < SECONDS_IN_MINUTE THEN part(td, UnitSeconds)
    ELSE LET days == td \div SECONDS_IN_DAY
             after_days == td % SECONDS_IN_DAY
             hours == after_days \div SECONDS_IN_HOUR
             after_hours == after_days % SECONDS_IN_HOUR
             minutes == after_hours \div SECONDS_IN_MINUTE
             seconds == after_hours % SECONDS_IN_MINUTE
         IN  join(format_parts(days, hours, minutes, 0)
                  \o (IF seconds # 0 THEN <<part(seconds, UnitSeconds)>> ELSE <<>>))

\* format_timedelta(td); td stands for int(td.total_seconds())
format_timedelta(td) ==
    IF td < SECONDS_IN_MINUTE THEN part(td, UnitSeconds)
    ELSE LET days == td \div SECONDS_IN_DAY
             after_days == td % SECONDS_IN_DAY
             hours == after_days \div SECONDS_IN_HOUR
             after_hours == after_days % SECONDS_IN_HOUR
             minutes == after_hours \div SECONDS_IN_MINUTE
             seconds == after_hours % SECONDS_IN_MINUTE
             parts == format_parts(days, hours, minutes, seconds)
         IN  IF parts # <<>> THEN join(parts) ELSE part(0, UnitSeconds)

-----------------------------------------------------------------------------
(* Initial state: the module-level maps are empty, the tables hold no rows *)

NoRun == [op |-> "none"]

Init ==
    /\ now = 0
    /\ nextMsgId = 1
    /\ user_messages = [k \in Keys |-> <<>>]
    /\ recent_spam_mutes = [k \in Keys |-> NoTime]
    /\ message_stats = 0
    /\ username_cache = EmptyCache
    /\ warns = <<>>
    /\ arrivals = <<>>
    /\ last = NoRun
    /\ chats = [c \in ChatIds |-> NoChat]
    /\ stats_rows = <<>>
    /\ permissions = [c \in ChatIds |-> TRUE]
    /\ coroutines = [i \in TaskIds |-> NotStarted]

-----------------------------------------------------------------------------
(* SpecDetector: the detector alone, fed the arrivals of one (chat, user)  *)

DetTick ==
    /\ now < DetMaxTime
    /\ now' = now + 1
    /\ UNCHANGED <<nextMsgId, user_messages, recent_spam_mutes, message_stats,
                   username_cache, warns, arrivals, last>>
    /\ UNCHANGED task_vars

DetArrive ==
    /\ nextMsgId <= DetMaxMsgs
    /\ LET r == check_and_get_spam_messages(user_messages, SpamKey, nextMsgId, now)
       IN  /\ user_messages' = r.um
           /\ last' = [op |-> "detector", spam |-> r.spam, ids |-> r.ids,
                       at |-> now, message_id |-> nextMsgId]
    /\ arrivals' = Append(arrivals, <<now, nextMsgId>>)
    /\ nextMsgId' = nextMsgId + 1
    /\ UNCHANGED <<now, recent_spam_mutes, message_stats, username_cache,
                   warns>>
    /\ UNCHANGED task_vars

DetNext == DetTick \/ DetArrive

SpecDetector == Init /\ [][DetNext]_vars

-----------------------------------------------------------------------------
(* SpecChain: group messages of one sender run through antispam_handler    *)

DefaultSender == Member("member", FALSE, FALSE)
DefaultBot == Member("administrator", TRUE, TRUE)
DefaultContent == [text |-> <<"b">>, caption |-> <<>>]
DefaultStore == [chat_row |-> ChatRow(TRUE, TRUE, Alice), filters |-> <<>>]

SenderResponses ==
    {MemberError, DefaultSender,
     Member("administrator", FALSE, FALSE), Member("creator", FALSE, FALSE)}

BotResponses ==
    {MemberError, DefaultBot,
     Member("administrator", FALSE, TRUE), Member("member", FALSE, FALSE)}

\* text and caption of the message
Contents ==
    {DefaultContent,
     [text |-> <<>>, caption |-> <<>>],
     [text |-> <<"a", "B">>, caption |-> <<>>],
     [text |-> <<>>, caption |-> <<"b", "A", "b">>]}

\* The Chat row of the group and the UserFilter table, as the owner's
\* settings leave them.
Stores ==
    {DefaultStore,
     [chat_row |-> ChatRow(TRUE, TRUE, Alice),
      filters  |-> <<FilterRow(GroupChat, Bob, "allow", <<"x", ",", " ", "B">>, TRUE, TRUE)>>],
     [chat_row |-> ChatRow(TRUE, FALSE, Alice),
      filters  |-> <<FilterRow(GroupChat, Bob, "block", <<"a", "b">>, FALSE, TRUE),
                     FilterRow(GroupChat, Bob, "block", <<"A">>, TRUE, TRUE)>>],
     [chat_row |-> ChatRow(FALSE, FALSE, 0), filters |-> <<>>]}

ChainEnv(sender, bot, restrict_ok, store) ==
    [sender |-> sender, bot |-> bot, restrict_ok |-> restrict_ok,
     chat_row |-> store.chat_row, filters |-> store.filters]

\* The message and the answers of the platform and the Store to one run.
ChainInput(from_user, content, store, sender, bot, restrict_ok) ==
    [from_user |-> from_user, content |-> content, store |-> store,
     sender |-> sender, bot |-> bot, restrict_ok |-> restrict_ok]

\* Content and Store of the runs of SpecChain.
ChainContentStores ==
    {<<DefaultContent, DefaultStore>>,
     <<[text |-> <<"a", "B">>, caption |-> <<>>],
       [chat_row |-> ChatRow(TRUE, TRUE, Alice),
        filters  |-> <<FilterRow(GroupChat, Bob, "allow", <<"x", ",", " ", "B">>, TRUE, TRUE)>>]>>}

\* SpecChain: every message is Bob's, the platform reports him as a plain
\* member and the bot as an administrator that can restrict.
PassInputs ==
    {ChainInput(Bob, cs[1], cs[2], DefaultSender, DefaultBot, ok) :
        cs \in ChainContentStores, ok \in BOOLEAN}

\* SpecGate: every return of the handler, every content and Store.  An
\* input the run does not read is kept at its default: runs that differ
\* only there are one run.
GateInputs ==
    {ChainInput(0, DefaultContent, DefaultStore, DefaultSender, DefaultBot, TRUE)}
    \cup {ChainInput(Bob, DefaultContent, DefaultStore, s, DefaultBot, TRUE) :
             s \in {x \in SenderResponses : x.ok /\ x # DefaultSender}}
    \cup {ChainInput(Bob, DefaultContent, DefaultStore, DefaultSender, b, TRUE) :
             b \in BotResponses \ {DefaultBot}}
    \cup {ChainInput(Bob, DefaultContent, DefaultStore, MemberError, MemberError, TRUE)}
    \cup {ChainInput(Bob, DefaultContent, DefaultStore, MemberError, DefaultBot, TRUE)}
    \cup {ChainInput(Bob, c, st, DefaultSender, DefaultBot, ok) :
             c \in Contents, st \in Stores, ok \in BOOLEAN}

\* Drops the inputs that differ from another one only where the run does
\* not read them.
ReadsOnly(r, in) ==
    /\ "restrict_chat_member" \notin Methods(r.calls) => in.restrict_ok
    /\ "bad_words" \notin Range(r.stages) =>
           in.content = DefaultContent /\ in.store = DefaultStore

\* The clock advances by one second.
Tick(maxTime) ==
    /\ now < maxTime
    /\ now' = now + 1
    /\ UNCHANGED <<nextMsgId, user_messages, recent_spam_mutes, message_stats,
                   username_cache, warns, arrivals, last>>
    /\ UNCHANGED task_vars

\* A group message arrives and antispam_handler handles it.
GroupMessage(inputs, maxMsgs) ==
    /\ nextMsgId <= maxMsgs
    /\ \E in \in inputs :
          LET msg == [chat |-> GroupChat, from_user |-> in.from_user,
                      text |-> in.content.text, caption |-> in.content.caption,
                      message_id |-> nextMsgId]
              env == ChainEnv(in.sender, in.bot, in.restrict_ok, in.store)
              r   == antispam_handler(user_messages, recent_spam_mutes,
                                      message_stats, username_cache, now,
                                      msg, env)
          IN  /\ ReadsOnly(r, in)
              /\ user_messages' = r.um
              /\ recent_spam_mutes' = r.rsm
              /\ message_stats' = r.stats
              /\ username_cache' = r.cache
              /\ last' = [op |-> "antispam", at |-> now, msg |-> msg,
                          env |-> env, spam |-> r.spam, ids |-> r.ids,
                          last_mute |-> recent_spam_mutes[<<GroupChat, Bob>>],
                          calls |-> r.calls, stages |-> r.stages]
    /\ nextMsgId' = nextMsgId + 1
    /\ UNCHANGED <<now, warns, arrivals>>
    /\ UNCHANGED task_vars

ChainTick == Tick(ChainMaxTime)

ChainMessage == GroupMessage(PassInputs, ChainMaxMsgs)

ChainNext == ChainTick \/ ChainMessage

SpecChain == Init /\ [][ChainNext]_vars

GateTick == Tick(GateMaxTime)

GateMessage == GroupMessage(GateInputs, GateMaxMsgs)

GateNext == GateTick \/ GateMessage

SpecGate == Init /\ [][GateNext]_vars

-----------------------------------------------------------------------------
(* antispam_handler followed from await to await:                          *)
(* src/src/handlers/moderation/antispam.py                                 *)

\* The message of a run in flight and what its last stages read.
flood_msg(co) ==
    [chat |-> co.chat, from_user |-> co.user, text |-> DefaultContent.text,
     caption |-> DefaultContent.caption, message_id |-> co.value]

flood_env == ChainEnv(DefaultSender, DefaultBot, TRUE, DefaultStore)

\* The run resumes after can_bot_restrict: the detector, and for a flagged
\* message the cooldown test, up to the call the run then waits for.
\* co.seen: the handler's now; co.ids: spam_msg_ids.
detect_step(co, det, rsm, t) ==
    IF ~det.spam THEN [co EXCEPT !.pc = "update_message_stats"]
    ELSE IF in_cooldown(rsm[<<co.chat, co.user>>], t)
    THEN [co EXCEPT !.pc = "delete_own", !.flag = TRUE, !.seen = t,
                    !.ids = det.ids,
                    !.calls = @ \o <<CallDelete(co.chat, co.value)>>]
    ELSE [co EXCEPT !.pc = "restrict_chat_member", !.flag = TRUE, !.seen = t,
                    !.ids = det.ids,
                    !.calls = @ \o <<CallRestrict(co.chat, co.user,
                                                  t + SPAM_MUTE_DURATION,
                                                  <<"mute">>)>>]

\* Variant of delete_next: a delete that fails ends the try block.
delete_next_raises(co, um, rsm, stats, ok) ==
    IF ~ok
    THEN [co |-> [co EXCEPT !.pc = "update_message_stats"],
          um |-> um, rsm |-> rsm, stats |-> stats]
    ELSE IF co.todo # <<>>
    THEN [co |-> [co EXCEPT !.todo = Tail(@),
                            !.calls = @ \o <<CallDelete(co.chat, Head(co.todo))>>],
          um |-> um, rsm |-> rsm, stats |-> stats]
    ELSE [co |-> [co EXCEPT !.pc = "answer",
                            !.calls = @ \o <<CallNotice(co.user)>>],
          um |-> [um EXCEPT ![<<co.chat, co.user>>] = <<>>],
          rsm |-> rsm, stats |-> stats]

\* The run resumes after a delete_message of the loop; ok: the delete
\* succeeded (contextlib.suppress drops the failure).  The next id is
\* deleted; after the last one the list is cleared and the notice is sent.
delete_next(co, um, rsm, stats, ok) ==
    IF co.todo # <<>>
    THEN [co |-> [co EXCEPT !.todo = Tail(@),
                            !.calls = @ \o <<CallDelete(co.chat, Head(co.todo))>>],
          um |-> um, rsm |-> rsm, stats |-> stats]
    ELSE [co |-> [co EXCEPT !.pc = "answer",
                            !.calls = @ \o <<CallNotice(co.user)>>],
          um |-> [um EXCEPT ![<<co.chat, co.user>>] = <<>>],
          rsm |-> rsm, stats |-> stats]

\* One step of antispam_handler: from the await the run stands at to the
\* next one.  sender, bot: the answers of get_chat_member; ok: the call
\* the run waited for succeeded.  Returns the run, the two maps and the
\* counter.
antispam_step(co, um, rsm, stats, t, sender, bot, ok) ==
    CASE co.pc = "is_user_admin" ->
            [co |-> IF is_user_admin(sender) THEN finish(co, <<>>)
                    ELSE [co EXCEPT !.pc = "can_bot_restrict"],
             um |-> um, rsm |-> rsm, stats |-> stats]
      [] co.pc = "can_bot_restrict" ->
            IF ~can_bot_restrict(bot)
            THEN [co |-> finish(co, <<>>), um |-> um, rsm |-> rsm, stats |-> stats]
            ELSE [co |-> detect_step(co,
                            check_and_get_spam_messages(um, <<co.chat, co.user>>,
                                                        co.value, t),
                            rsm, t),
                  um |-> check_and_get_spam_messages(um, <<co.chat, co.user>>,
                                                     co.value, t).um,
                  rsm |-> rsm, stats |-> stats]
      [] co.pc = "delete_own" ->
            [co |-> finish(co, <<>>), um |-> um, rsm |-> rsm, stats |-> stats]
      [] co.pc = "restrict_chat_member" ->
            IF ~ok
            THEN [co |-> [co EXCEPT !.pc = "update_message_stats"],
                  um |-> um, rsm |-> rsm, stats |-> stats]
            ELSE [co |-> [co EXCEPT !.pc = "delete_message",
                                    !.todo = Tail(co.ids),
                                    !.calls = @ \o <<CallDelete(co.chat, Head(co.ids))>>],
                  um |-> um,
                  rsm |-> [rsm EXCEPT ![<<co.chat, co.user>>] = co.seen],
                  stats |-> stats]
      [] co.pc = "delete_message" -> delete_next(co, um, rsm, stats, ok)
      [] co.pc = "answer" ->
            [co |-> [co EXCEPT !.pc = "update_message_stats"],
             um |-> um, rsm |-> rsm, stats |-> stats]
      [] co.pc = "update_message_stats" ->
            [co |-> finish(co, chain_tail(Run(um, rsm, stats, EmptyCache),
                                          flood_msg(co), flood_env).calls),
             um |-> um, rsm |-> rsm,
             stats |-> update_message_stats(stats)]

-----------------------------------------------------------------------------
(* Commands, buttons and warns as actions                                  *)

ModCommands == {"ban", "unban", "mute", "unmute", "kick"}
WarnCommands == {"warn", "unwarn", "warns"}
Forms == {"slash", "text"}

\* Words of command arguments
ArgAliceId == <<"1">>
ArgBobId == <<"2">>
ArgBotId == <<"9">>
ArgBobName == <<"@", "B", "a">>
ArgShort == <<"1", "0", "s">>
ArgMinute == <<"1", "m">>
ArgWord == <<"x">>

AdminResp == Member("administrator", FALSE, FALSE)
OwnerResp == Member("creator", FALSE, FALSE)
NoRestrictBot == Member("administrator", FALSE, TRUE)
MemberBot == Member("member", FALSE, FALSE)

EnabledRow == ModRow(TRUE, TRUE)

\* The actor is reported as administrator, the bot can restrict, the
\* target is a plain member, get_chat knows Bob, the calls succeed.
DefaultCmdEnv ==
    CommandEnv(EnabledRow, AdminResp, DefaultBot, DefaultSender,
               ChatInfo(Bob), ChatInfo(Bob), TRUE)

\* One command as it arrives: the chat type, the reply, the arguments and
\* what the run meets.  Alice is the sender of every command.
CmdInput(chat_type, reply_to, args, env) ==
    [chat_type |-> chat_type, reply_to |-> reply_to, args |-> args, env |-> env]

\* Commands stopped by a permission check.
GateCases ==
    {CmdInput("private", Bob, <<>>, DefaultCmdEnv),
     CmdInput("private", Bob, <<>>, [DefaultCmdEnv EXCEPT !.chat_row = ModRow(TRUE, FALSE)]),
     CmdInput("group", Bob, <<>>, [DefaultCmdEnv EXCEPT !.chat_row = ModRow(TRUE, FALSE)]),
     CmdInput("group", Bob, <<>>, [DefaultCmdEnv EXCEPT !.chat_row = ModRow(FALSE, FALSE)])}
    \cup {CmdInput("group", Bob, <<>>, [DefaultCmdEnv EXCEPT !.actor = a]) :
             a \in {DefaultSender, MemberError}}
    \cup {CmdInput("group", Bob, <<>>, [DefaultCmdEnv EXCEPT !.bot = b]) :
             b \in {NoRestrictBot, MemberBot, MemberError}}
    \cup {CmdInput("group", Bob, <<>>,
                   [DefaultCmdEnv EXCEPT !.actor = MemberError, !.bot = MemberError,
                                         !.target = MemberError])}

\* Commands that pass the permission checks, by target.
TargetCases ==
    {CmdInput("group", r, <<>>, DefaultCmdEnv) : r \in {Alice, BotId, Carol}}
    \cup {CmdInput("group", Bob, <<>>, [DefaultCmdEnv EXCEPT !.target = tr]) :
             tr \in {AdminResp, OwnerResp, MemberError}}
    \cup {CmdInput("group", 0, <<a>>, DefaultCmdEnv) :
             a \in {ArgAliceId, ArgBotId, ArgBobId, ArgBobName, ArgWord}}
    \cup {CmdInput("group", 0, <<a>>, [DefaultCmdEnv EXCEPT !.target = AdminResp]) :
             a \in {ArgBobId, ArgBobName}}
    \cup {CmdInput("group", 0, <<ArgBobName>>,
                   [DefaultCmdEnv EXCEPT !.get_chat = ChatError, !.enrich = e]) :
             e \in {ChatError, ChatInfo(Bob)}}
    \cup {CmdInput("group", 0, <<ArgBobId>>, [DefaultCmdEnv EXCEPT !.enrich = ChatError]),
          CmdInput("group", 0, <<>>, DefaultCmdEnv)}

\* Commands with a duration or a reason, and commands whose call fails.
DurationCases ==
    {CmdInput("group", Bob, args, DefaultCmdEnv) :
        args \in {<<ArgShort>>, <<ArgMinute, ArgWord>>, <<ArgWord>>}}
    \cup {CmdInput("group", 0, <<ArgBobId, ArgMinute>>, DefaultCmdEnv),
          CmdInput("group", Bob, <<>>, [DefaultCmdEnv EXCEPT !.call_ok = FALSE])}

CmdInputs == GateCases \cup TargetCases \cup DurationCases

\* Warn commands: the plain ones, and the platform refusing at the threshold.
WarnInputs ==
    GateCases \cup TargetCases
    \cup {CmdInput("group", Bob, <<>>, [DefaultCmdEnv EXCEPT !.call_ok = FALSE])}

message_of(in, message_id) ==
    CommandMessage(IF in.chat_type = "private" THEN PrivateChat ELSE GroupChat,
                   in.chat_type, Alice, in.reply_to, in.args, 0, message_id)

\* A slash moderation command arrives.
SlashCommand(inputs, maxMsgs) ==
    /\ nextMsgId <= maxMsgs
    /\ \E command \in ModCommands, in \in inputs :
          LET msg == message_of(in, nextMsgId)
          IN  last' = [op |-> "slash", command |-> command, msg |-> msg,
                       env |-> in.env,
                       calls |-> slash_command(command, msg, in.env, now)]
    /\ nextMsgId' = nextMsgId + 1
    /\ UNCHANGED <<now, user_messages, recent_spam_mutes, message_stats,
                   username_cache, warns, arrivals>>
    /\ UNCHANGED task_vars

\* A bare-word moderation command arrives.
TextCommand(inputs, maxMsgs) ==
    /\ nextMsgId <= maxMsgs
    /\ \E command \in ModCommands, in \in inputs :
          LET msg == message_of(in, nextMsgId)
              r   == text_moderation_command(command, msg, in.env,
                                             username_cache, now)
          IN  /\ username_cache' = r.cache
              /\ last' = [op |-> "text", command |-> command, msg |-> msg,
                          env |-> in.env, calls |-> r.calls]
    /\ nextMsgId' = nextMsgId + 1
    /\ UNCHANGED <<now, user_messages, recent_spam_mutes, message_stats,
                   warns, arrivals>>
    /\ UNCHANGED task_vars

\* A warn command arrives, in its slash or its "!" form.
WarnCommand(forms, commands, inputs, maxMsgs) ==
    /\ nextMsgId <= maxMsgs
    /\ \E form \in forms, command \in commands, in \in inputs :
          LET msg == message_of(in, nextMsgId)
              r   == warn_command(form, command, msg, in.env, warns)
          IN  /\ warns' = r.rows
              /\ last' = [op |-> "warn", form |-> form, command |-> command,
                          msg |-> msg, env |-> in.env, calls |-> r.calls,
                          added |-> r.added, count |-> r.count,
                          final_user_id |-> r.final_user_id]
    /\ nextMsgId' = nextMsgId + 1
    /\ UNCHANGED <<now, user_messages, recent_spam_mutes, message_stats,
                   username_cache, arrivals>>
    /\ UNCHANGED task_vars

\* A press as it arrives: the presser (0: none), whether the pressed
\* message is still there, the id in the button's data (0: none that
\* parses), whether the message has text, and what the run meets.
PressInput(from_user, has_message, data_user, has_text, actor, call_ok) ==
    [callback |-> CallbackQuery(GroupChat, from_user, has_message, data_user,
                                has_text),
     env |-> [DefaultCmdEnv EXCEPT !.actor = actor, !.call_ok = call_ok]]

PressInputs ==
    {PressInput(0, TRUE, Bob, TRUE, AdminResp, TRUE),
     PressInput(Alice, FALSE, Bob, TRUE, AdminResp, TRUE),
     PressInput(Alice, TRUE, 0, TRUE, AdminResp, TRUE),
     PressInput(Alice, TRUE, Bob, TRUE, AdminResp, FALSE)}
    \cup {PressInput(Alice, TRUE, Bob, TRUE, a, TRUE) :
             a \in {DefaultSender, MemberError, OwnerResp}}
    \cup {PressInput(Alice, TRUE, Bob, has_text, AdminResp, TRUE) :
             has_text \in BOOLEAN}

\* A button under a report is pressed.
ButtonPress ==
    /\ \E kind \in {"unban", "unmute"}, in \in PressInputs :
          last' = [op |-> "button", kind |-> kind, callback |-> in.callback,
                   env |-> in.env,
                   calls |-> IF kind = "unban"
                             THEN callback_unban(in.callback, in.env)
                             ELSE callback_unmute(in.callback, in.env)]
    /\ UNCHANGED <<now, nextMsgId, user_messages, recent_spam_mutes,
                   message_stats, username_cache, warns, arrivals>>
    /\ UNCHANGED task_vars

-----------------------------------------------------------------------------
(* SpecCmd: moderation and warn commands of an administrator's chat        *)

CmdSlash == SlashCommand(CmdInputs, CmdMaxMsgs)

CmdText == TextCommand(CmdInputs, CmdMaxMsgs)

CmdWarn == WarnCommand(Forms, WarnCommands, WarnInputs, CmdMaxMsgs)

CmdNext == CmdSlash \/ CmdText \/ CmdWarn \/ ButtonPress

SpecCmd == Init /\ [][CmdNext]_vars

-----------------------------------------------------------------------------
(* SpecWarn: warns given to Bob, by reply, by id and by @username          *)

\* get_chat and add_warn's get_chat answer or fail; the bot can restrict or
\* not; the ban succeeds or fails.
WarnBobInputs ==
    {CmdInput("group", Bob, <<>>, [DefaultCmdEnv EXCEPT !.bot = b, !.call_ok = ok]) :
        b \in {DefaultBot, NoRestrictBot}, ok \in BOOLEAN}
    \cup {CmdInput("group", 0, <<ArgBobId>>, [DefaultCmdEnv EXCEPT !.enrich = e]) :
             e \in {ChatError, ChatInfo(Bob)}}
    \cup {CmdInput("group", 0, <<ArgBobName>>,
                   [DefaultCmdEnv EXCEPT !.get_chat = g, !.enrich = e]) :
             g \in {ChatError, ChatInfo(Bob)}, e \in {ChatError, ChatInfo(Bob)}}

WarnBob == WarnCommand(Forms, {"warn"}, WarnBobInputs, WarnMaxMsgs)

UnwarnBob ==
    WarnCommand({"slash"}, {"unwarn"}, {CmdInput("group", Bob, <<>>, DefaultCmdEnv)},
                WarnMaxMsgs)

WarnNext == WarnBob \/ UnwarnBob

SpecWarn == Init /\ [][WarnNext]_vars

-----------------------------------------------------------------------------
(* SpecGuard: every handler, with get_chat_member answering or failing     *)

GuardEnvs ==
    {DefaultCmdEnv,
     [DefaultCmdEnv EXCEPT !.actor = MemberError],
     [DefaultCmdEnv EXCEPT !.bot = MemberError],
     [DefaultCmdEnv EXCEPT !.target = MemberError],
     [DefaultCmdEnv EXCEPT !.actor = MemberError, !.bot = MemberError,
                           !.target = MemberError]}

GuardInputs == {CmdInput("group", Bob, <<>>, env) : env \in GuardEnvs}

\* Group messages with a banned word, of a sender with an active filter.
GuardMessages ==
    {ChainInput(Bob, cs[1], cs[2], s, b, TRUE) :
        cs \in ChainContentStores, s \in {DefaultSender, MemberError},
        b \in {DefaultBot, MemberError}}

GuardSlash == SlashCommand(GuardInputs, GuardMaxMsgs)

GuardText == TextCommand(GuardInputs, GuardMaxMsgs)

GuardWarn == WarnCommand(Forms, {"warn", "unwarn"}, GuardInputs, GuardMaxMsgs)

GuardMessage == GroupMessage(GuardMessages, GuardMaxMsgs)

GuardNext == GuardSlash \/ GuardText \/ GuardWarn \/ ButtonPress \/ GuardMessage

SpecGuard == Init /\ [][GuardNext]_vars

-----------------------------------------------------------------------------
(* SpecMute: commands with a duration word, against a plain member         *)

ArgZero == <<"0", "s">>
ArgBelow == <<"2", "9", "s">>
ArgFloor == <<"3", "0", "s">>

\* Duration words under, at and over the floor, a word that is no duration,
\* and no word; the target given by reply or by id.
MuteInputs ==
    {CmdInput("group", Bob, <<a>>, DefaultCmdEnv) :
        a \in {ArgZero, ArgShort, ArgBelow, ArgFloor, ArgMinute, ArgWord}}
    \cup {CmdInput("group", 0, <<ArgBobId, a>>, DefaultCmdEnv) :
             a \in {ArgZero, ArgShort, ArgBelow, ArgFloor, ArgMinute, ArgWord}}
    \cup {CmdInput("group", Bob, <<>>, DefaultCmdEnv),
          CmdInput("group", 0, <<ArgBobId>>, DefaultCmdEnv),
          CmdInput("group", Bob, <<ArgShort, ArgMinute>>, DefaultCmdEnv),
          CmdInput("group", Bob, <<ArgMinute>>,
                   [DefaultCmdEnv EXCEPT !.call_ok = FALSE])}

MuteTick == Tick(MuteMaxTime)

MuteSlash == SlashCommand(MuteInputs, MuteMaxMsgs)

MuteText == TextCommand(MuteInputs, MuteMaxMsgs)

MuteNext == MuteTick \/ MuteSlash \/ MuteText

SpecMute == Init /\ [][MuteNext]_vars

-----------------------------------------------------------------------------
(* SpecSetup: /setup commands and deactivations, interleaved               *)

\* A /setup arrives, in a group or in a private chat.
SetupArrives ==
    /\ FreeTask # 0 /\ FreeTask <= SetupMaxTasks
    /\ \E chat \in ChatIds \cup {PrivateChat}, user \in {Alice, Bob} :
          coroutines' = [coroutines EXCEPT ![FreeTask] =
              IF chat = PrivateChat
              THEN finish(Coroutine("setup", "start", chat, user),
                          <<CallAnswer(<<"group_only">>)>>)
              ELSE Coroutine("setup", "get_chat_from_db", chat, user)]
    /\ UNCHANGED <<chats, stats_rows, permissions>>
    /\ UNCHANGED handler_vars

\* A /setup in flight runs up to its next await.
SetupStep ==
    /\ \E i \in TaskIds, actor \in {AdminResp, MemberError},
          bot \in {DefaultBot, MemberBot} :
          /\ coroutines[i].kind = "setup" /\ coroutines[i].pc # "done"
          /\ coroutines' = [coroutines EXCEPT ![i] =
                               cmd_setup(coroutines[i], chats, actor, bot).co]
          /\ chats' = cmd_setup(coroutines[i], chats, actor, bot).chats
    /\ UNCHANGED <<stats_rows, permissions>>
    /\ UNCHANGED handler_vars

\* The button that confirms the deactivation is pressed.
DeactivateArrives ==
    /\ FreeTask # 0 /\ FreeTask <= SetupMaxTasks
    /\ \E user \in {Alice, Bob} :
          coroutines' = [coroutines EXCEPT ![FreeTask] =
                            Coroutine("deactivate", "get_admin_chat", 0, user)]
    /\ UNCHANGED <<chats, stats_rows, permissions>>
    /\ UNCHANGED handler_vars

\* A deactivation in flight runs up to its next await.
DeactivateStep ==
    /\ \E i \in TaskIds :
          /\ coroutines[i].kind = "deactivate" /\ coroutines[i].pc # "done"
          /\ coroutines' = [coroutines EXCEPT ![i] =
                               callback_deactivate_confirm(coroutines[i], chats).co]
          /\ chats' = callback_deactivate_confirm(coroutines[i], chats).chats
    /\ UNCHANGED <<stats_rows, permissions>>
    /\ UNCHANGED handler_vars

SetupNext == SetupArrives \/ SetupStep \/ DeactivateArrives \/ DeactivateStep

SpecSetup == Init /\ [][SetupNext]_vars

-----------------------------------------------------------------------------
(* SpecReopen: channel posts, the delayed reopen, and the owner's button   *)

\* A second passes while some handler is in flight.
ReopenTick ==
    /\ \E i \in TaskIds : coroutines[i].pc \notin {"none", "done"}
    /\ Tick(ReopenMaxTime)

\* A /setup is handled while nothing else is in flight.
ReopenSetup ==
    /\ \A i \in TaskIds : coroutines[i].pc \in {"none", "done"}
    /\ \E chat \in ChatIds, user \in {Alice, Bob} :
          chats' = setup_to_end(Coroutine("setup", "get_chat_from_db", chat, user),
                                chats, AdminResp, DefaultBot)
    /\ UNCHANGED <<stats_rows, permissions, coroutines>>
    /\ UNCHANGED handler_vars

\* The linked channel's post shows up in a group.
PostArrives ==
    /\ FreeTask # 0 /\ FreeTask <= ReopenMaxTasks
    /\ \E chat \in ChatIds :
          coroutines' = [coroutines EXCEPT ![FreeTask] =
                            [Coroutine("post", "get_active_chat", chat, 0)
                                EXCEPT !.at = now]]
    /\ UNCHANGED <<chats, stats_rows, permissions>>
    /\ UNCHANGED handler_vars

\* The outcomes to draw for an input of run i: both at the await that
\* uses the input, one elsewhere.
PostChoice(i, pc) == IF coroutines[i].pc = pc THEN BOOLEAN ELSE {TRUE}

\* A post handler in flight runs up to its next await; the one that sleeps
\* runs on when its delay is over.
PostStep ==
    /\ \E i \in TaskIds :
       \E configured \in PostChoice(i, "get_active_chat"),
          duration \in IF coroutines[i].pc = "get_active_chat"
                       THEN {0, PostDelay} ELSE {0},
          sent \in PostChoice(i, "send_post_message"),
          ok \in PostChoice(i, "close_chat_temporarily")
                    \cup PostChoice(i, "open_chat") :
          /\ coroutines[i].kind = "post" /\ coroutines[i].pc # "done"
          /\ coroutines[i].pc = "sleep" => now >= coroutines[i].seen
          /\ LET r == handle_channel_post(coroutines[i], chats, permissions, now,
                                          configured, duration, sent, ok)
             IN  /\ coroutines' = [coroutines EXCEPT ![i] = r.co]
                 /\ permissions' = r.permissions
    /\ UNCHANGED <<chats, stats_rows>>
    /\ UNCHANGED handler_vars

\* The owner presses "close" or "open" in the panel.
ToggleArrives ==
    /\ FreeTask # 0 /\ FreeTask <= ReopenMaxTasks
    /\ \E user \in {Alice, Bob}, closed \in BOOLEAN :
          coroutines' = [coroutines EXCEPT ![FreeTask] =
              [Coroutine("toggle", "get_admin_chat", 0, user) EXCEPT !.flag = closed]]
    /\ UNCHANGED <<chats, stats_rows, permissions>>
    /\ UNCHANGED handler_vars

\* A press in flight runs up to its next await.
ToggleStep ==
    /\ \E i \in TaskIds, ok \in BOOLEAN :
          /\ coroutines[i].kind = "toggle" /\ coroutines[i].pc # "done"
          /\ LET r == callback_toggle_chat(coroutines[i], chats, permissions, ok)
             IN  /\ coroutines' = [coroutines EXCEPT ![i] = r.co]
                 /\ chats' = r.chats
                 /\ permissions' = r.permissions
    /\ UNCHANGED stats_rows
    /\ UNCHANGED handler_vars

ReopenNext ==
    ReopenTick \/ ReopenSetup \/ PostArrives \/ PostStep \/ ToggleArrives \/ ToggleStep

SpecReopen == Init /\ [][ReopenNext]_vars

-----------------------------------------------------------------------------
(* SpecParse: parse_timedelta applied to words made of a few pieces        *)

\* Tokens with a Latin modifier.
LatinTokens ==
    {<<"1", "d">>, <<"1", "2", "h">>, <<"3", "0", "m">>, <<"0", "s">>, <<"2", "w">>}

\* The Cyrillic letter of a Latin modifier, and the letter itself otherwise.
cyrillic_char(c) ==
    CASE c = "w" -> CyrWeek
      [] c = "d" -> CyrDay
      [] c = "h" -> CyrHour
      [] c = "m" -> CyrMinute
      [] c = "s" -> CyrSecond
      [] OTHER   -> c

cyrillic(piece) == SeqMap(cyrillic_char, piece)

CyrillicTokens == {cyrillic(t) : t \in LatinTokens}

\* Capital modifiers, a unit letter that is none, a bare letter and a bare
\* number.
OtherPieces ==
    {<<"1", "D">>, <<"2", CyrCapitalDay>>, <<"5", "x">>, <<"x">>, <<"1">>}

Pieces == LatinTokens \cup CyrillicTokens \cup OtherPieces

RECURSIVE Concat(_)
Concat(pieces) ==
    IF pieces = <<>> THEN <<>> ELSE Head(pieces) \o Concat(Tail(pieces))

\* The pieces of the word parsed last.
LastPieces == IF last.op = "parse" THEN last.pieces ELSE <<>>

\* parse_timedelta is called with a word: the one of the call before,
\* longer by a piece.
Parse ==
    /\ Len(LastPieces) < ParseMaxPieces
    /\ \E piece \in Pieces :
          last' = [op |-> "parse", pieces |-> Append(LastPieces, piece),
                   time_str |-> Concat(Append(LastPieces, piece)),
                   result |-> parse_timedelta(Concat(Append(LastPieces, piece)))]
    /\ UNCHANGED <<now, nextMsgId, user_messages, recent_spam_mutes,
                   message_stats, username_cache, warns, arrivals>>
    /\ UNCHANGED task_vars

ParseNext == Parse

SpecParse == Init /\ [][ParseNext]_vars

-----------------------------------------------------------------------------
(* SpecTarget: check_target_user applied to an actor, a target and the     *)
(* platform's answer about the target                                      *)

\* check_target_user is called.
CheckTarget ==
    /\ \E from_user \in Users \cup {BotId}, user_id \in Users \cup {BotId},
          target \in {DefaultSender, AdminResp, OwnerResp, MemberError},
          action_name \in {"ban", "mute", "kick"} :
          LET msg == CommandMessage(GroupChat, "group", from_user, 0, <<>>, 0, 1)
              env == [DefaultCmdEnv EXCEPT !.target = target]
          IN  last' = [op |-> "check_target", msg |-> msg, env |-> env,
                       user_id |-> user_id, action_name |-> action_name,
                       result |-> check_target_user(msg, env, user_id, action_name)]
    /\ UNCHANGED <<now, nextMsgId, user_messages, recent_spam_mutes,
                   message_stats, username_cache, warns, arrivals>>
    /\ UNCHANGED task_vars

TargetNext == CheckTarget

SpecTarget == Init /\ [][TargetNext]_vars

-----------------------------------------------------------------------------
(* SpecStats: group messages at the statistics stage, handled concurrently *)

\* Midnight passes.
StatsMidnight ==
    /\ today(now) < StatsMaxDays
    /\ now' = now + 86400
    /\ UNCHANGED <<nextMsgId, user_messages, recent_spam_mutes, message_stats,
                   username_cache, warns, arrivals, last>>
    /\ UNCHANGED task_vars

\* A message of a chat reaches update_message_stats.
StatsArrives ==
    /\ FreeTask # 0 /\ FreeTask <= StatsMaxTasks
    /\ \E chat \in ChatIds :
          coroutines' = [coroutines EXCEPT ![FreeTask] =
              [Coroutine("stats", "select", chat, 0) EXCEPT !.seen = today(now)]]
    /\ UNCHANGED <<chats, stats_rows, permissions>>
    /\ UNCHANGED handler_vars

\* An update in flight runs up to its next await.
StatsStep ==
    /\ \E i \in TaskIds :
          /\ coroutines[i].kind = "stats" /\ coroutines[i].pc # "done"
          /\ coroutines' = [coroutines EXCEPT ![i] =
                               stats_step(coroutines[i], stats_rows).co]
          /\ stats_rows' = stats_step(coroutines[i], stats_rows).stats_rows
    /\ UNCHANGED <<chats, permissions>>
    /\ UNCHANGED handler_vars

StatsNext == StatsMidnight \/ StatsArrives \/ StatsStep

SpecStats == Init /\ [][StatsNext]_vars

-----------------------------------------------------------------------------
(* SpecFlood: Bob's messages, some handled while others are in flight      *)

\* A second passes while some handler waits at an await; the seconds between
\* handlers are those of SpecDetector and SpecChain.
FloodTick ==
    /\ \E i \in TaskIds : coroutines[i].kind = "antispam"
                         /\ coroutines[i].pc # "done"
    /\ Tick(FloodMaxTime)

FloodInputs ==
    {ChainInput(Bob, DefaultContent, DefaultStore, DefaultSender, DefaultBot, TRUE)}

\* Before any handler is followed await by await, a message is handled from
\* its first await to its last with no other run in between.
FloodMessage ==
    /\ \A i \in TaskIds : coroutines[i].kind = "none"
    /\ GroupMessage(FloodInputs, FloodMaxMsgs)

\* A message arrives and its handler runs up to its first await.
FloodArrives ==
    /\ nextMsgId <= FloodMaxMsgs
    /\ FreeTask # 0 /\ FreeTask <= FloodMaxTasks
    /\ coroutines' = [coroutines EXCEPT ![FreeTask] =
          [Coroutine("antispam", "is_user_admin", GroupChat, Bob)
              EXCEPT !.value = nextMsgId]]
    /\ username_cache' = cache_user(username_cache, GroupChat, Bob)
    /\ nextMsgId' = nextMsgId + 1
    /\ UNCHANGED <<now, user_messages, recent_spam_mutes, message_stats,
                   warns, arrivals, last>>
    /\ UNCHANGED <<chats, stats_rows, permissions>>

\* The outcomes to draw for run i at the await pc: both there, one elsewhere.
FloodChoice(i, pc) == IF coroutines[i].pc = pc THEN BOOLEAN ELSE {TRUE}

\* A handler in flight runs up to its next await.  The sender is a member
\* and the bot may restrict, as in FloodInputs; the two gates are SpecGate's.
FloodStep ==
    /\ \E i \in TaskIds :
       \E ok \in FloodChoice(i, "restrict_chat_member")
                    \cup FloodChoice(i, "delete_message") :
          /\ coroutines[i].kind = "antispam" /\ coroutines[i].pc # "done"
          /\ LET r == antispam_step(coroutines[i], user_messages,
                                    recent_spam_mutes, message_stats, now,
                                    DefaultSender, DefaultBot, ok)
             IN  /\ coroutines' = [coroutines EXCEPT ![i] = r.co]
                 /\ user_messages' = r.um
                 /\ recent_spam_mutes' = r.rsm
                 /\ message_stats' = r.stats
    /\ UNCHANGED <<now, nextMsgId, username_cache, warns, arrivals, last>>
    /\ UNCHANGED <<chats, stats_rows, permissions>>

FloodNext == FloodTick \/ FloodMessage \/ FloodArrives \/ FloodStep

SpecFlood == Init /\ [][FloodNext]_vars

-----------------------------------------------------------------------------
-----------------------------------------------------------------------------
(* SpecFilters: check_user_filters applied to Bob's messages and a         *)
(* UserFilter table that grows row by row                                  *)

\* Rows of the UserFilter table: Bob's filters in the group, block and
\* allow, active and not, with and without notification, one whose patterns
\* are all empty; a filter of Carol and one of Bob in another chat.
FilterRows ==
    {FilterRow(GroupChat, Bob, "block", <<"A">>, TRUE, TRUE),
     FilterRow(GroupChat, Bob, "block", <<"b">>, TRUE, FALSE),
     FilterRow(GroupChat, Bob, "block", <<"a", "b">>, FALSE, TRUE),
     FilterRow(GroupChat, Bob, "allow", <<"x", ",", " ", "B">>, TRUE, TRUE),
     FilterRow(GroupChat, Bob, "allow", <<" ", ",">>, TRUE, FALSE),
     FilterRow(GroupChat, Carol, "block", <<"b">>, TRUE, TRUE),
     FilterRow(OtherChat, Bob, "block", <<"b">>, TRUE, TRUE)}

\* A text, a text in capitals, a caption, and a message with neither.
FilterContents ==
    {[text |-> <<"a">>, caption |-> <<>>],
     [text |-> <<"a", "B">>, caption |-> <<>>],
     [text |-> <<>>, caption |-> <<"c", "b">>],
     [text |-> <<>>, caption |-> <<>>]}

\* The Chat row of the group: with the owner who activated it, without one.
FilterChatRows == {ChatRow(TRUE, TRUE, Alice), ChatRow(TRUE, TRUE, 0)}

\* The table of the call before.
LastTable == IF last.op = "filters" THEN last.filters ELSE <<>>

\* A row is added to the table and a message of Bob reaches
\* check_user_filters.
FilterMessage ==
    /\ Len(LastTable) < FilterMaxRows
    /\ \E row \in FilterRows, content \in FilterContents,
          chat_row \in FilterChatRows :
          LET msg == [chat |-> GroupChat, from_user |-> Bob,
                      text |-> content.text, caption |-> content.caption,
                      message_id |-> 1]
              filters == Append(LastTable, row)
          IN  last' = [op |-> "filters", msg |-> msg, filters |-> filters,
                       chat_row |-> chat_row,
                       calls |-> check_user_filters(msg, filters, chat_row)]
    /\ UNCHANGED <<now, nextMsgId, user_messages, recent_spam_mutes,
                   message_stats, username_cache, warns, arrivals>>
    /\ UNCHANGED task_vars

FiltersNext == FilterMessage

SpecFilters == Init /\ [][FiltersNext]_vars

-----------------------------------------------------------------------------
(* SpecResolve: the target of a command, resolved by the slash handlers    *)
(* and by the bare-word handlers over the same username cache              *)

ArgAliceName == <<"@", "a", "B">>

\* The words after the command: none, an id, a cached or unknown
\* @username, a word that is neither.
ResolveArgs == {<<>>, <<ArgBobId>>, <<ArgBobName>>, <<ArgAliceName>>, <<ArgWord>>}

\* A group message of a user is seen: cache_user stores the username.
ResolveCacheUser ==
    /\ \E user \in Users :
          username_cache' = cache_user(username_cache, GroupChat, user)
    /\ UNCHANGED <<now, nextMsgId, user_messages, recent_spam_mutes,
                   message_stats, warns, arrivals, last>>
    /\ UNCHANGED task_vars

\* A command arrives and its target is resolved: by get_target_user for a
\* slash command, by build_moderation_context for a bare-word command.
Resolve ==
    /\ \E form \in Forms, reply_to \in {0, Carol}, args \in ResolveArgs,
          text_mention \in {0, Alice},
          get_chat \in {ChatError, ChatInfo(Bob), ChatInfo(Carol)} :
          LET msg == CommandMessage(GroupChat, "group", Alice, reply_to, args,
                                    text_mention, 1)
              env == [DefaultCmdEnv EXCEPT !.get_chat = get_chat]
              ctx == build_moderation_context(msg, env, username_cache)
          IN  /\ last' = [op |-> "resolve", form |-> form, msg |-> msg,
                          env |-> env,
                          user_id |-> IF form = "slash"
                                      THEN get_target_user(msg, env).user_id
                                      ELSE ctx.user_id,
                          user_name |-> IF form = "slash"
                                        THEN get_target_user(msg, env).user_name
                                        ELSE ctx.user_name]
              /\ username_cache' = IF form = "slash" THEN username_cache
                                   ELSE ctx.cache
    /\ UNCHANGED <<now, nextMsgId, user_messages, recent_spam_mutes,
                   message_stats, warns, arrivals>>
    /\ UNCHANGED task_vars

ResolveNext == ResolveCacheUser \/ Resolve

SpecResolve == Init /\ [][ResolveNext]_vars

-----------------------------------------------------------------------------
(* Routing of a group message to its handler: the filters of the message   *)
(* handlers of src/src/handlers/moderation, in the order of __init__.py    *)

\* Whitespace as str.split() and the regex class \s read it
IsSpace(c) == c \in {" ", "\n"}

RECURSIVE lstrip_space(_)
lstrip_space(s) ==
    IF s # <<>> /\ IsSpace(Head(s)) THEN lstrip_space(Tail(s)) ELSE s

\* str.split(): the words between runs of whitespace
RECURSIVE split(_)
split(s) ==
    LET t == lstrip_space(s)
    IN  IF t = <<>> THEN <<>>
        ELSE IF \A i \in 1..Len(t) : ~IsSpace(t[i]) THEN <<t>>
        ELSE LET n == CHOOSE j \in 1..Len(t) :
                          IsSpace(t[j]) /\ \A k \in 1..(j - 1) : ~IsSpace(t[k])
             IN  <<SubSeq(t, 1, n - 1)>> \o split(SubSeq(t, n, Len(t)))

\* The user name of the bot, as bot.me() gives it
BotUsername == <<"b", "o", "t">>

\* The filter Command(name) on message.text: the first word is the prefix
\* "/" and the name, letter for letter, with or without a mention of the bot.
Command(text, name) ==
    /\ split(text) # <<>>
    /\ LET full_command == Head(split(text))
           body == Tail(full_command)
           at   == IF \E i \in 1..Len(body) : body[i] = "@"
                   THEN CHOOSE i \in 1..Len(body) :
                            body[i] = "@" /\ \A k \in 1..(i - 1) : body[k] # "@"
                   ELSE Len(body) + 1
           mention == SubSeq(body, at + 1, Len(body))
       IN  /\ Head(full_command) = "/"
           /\ SubSeq(body, 1, at - 1) = name
           /\ mention # <<>> => lower(mention) = lower(BotUsername)

\* (.*)$ without DOTALL: no line feed but a last one
dot_star_end(s) == \A i \in 1..Len(s) : s[i] = "\n" => i = Len(s)

\* (?:\s+(.*))?$ after the word of a command pattern
tail_matches(rest) ==
    \/ rest = <<>>
    \/ rest = <<"\n">>
    \/ IsSpace(Head(rest)) /\ dot_star_end(lstrip_space(rest))

\* re.IGNORECASE match of `^(word)(?:\s+(.*))?$` for one word of the group
word_matches(s, word) ==
    /\ Len(s) >= Len(word)
    /\ lower(SubSeq(s, 1, Len(word))) = word
    /\ tail_matches(SubSeq(s, Len(word) + 1, Len(s)))

\* F.text.regexp(pattern) for the patterns `^P(w1|w2|...)(?:\s+(.*))?$`:
\* the indices of the words of `words` the text matches with.  prefixes:
\* the characters of P; optional: P is followed by `?`.
regexp(text, prefixes, optional, words) ==
    {i \in 1..Len(words) :
        \/ text # <<>> /\ Head(text) \in prefixes /\ word_matches(Tail(text), words[i].word)
        \/ optional /\ word_matches(text, words[i].word)}

\* group(2) of a match: what follows the first word and its whitespace
group2(text) ==
    IF \A i \in 1..Len(text) : ~IsSpace(text[i]) THEN <<>>
    ELSE LET n == CHOOSE j \in 1..Len(text) :
                      IsSpace(text[j]) /\ \A k \in 1..(j - 1) : ~IsSpace(text[k])
         IN  lstrip_space(SubSeq(text, n, Len(text)))

CmdWord(word, command) == [word |-> word, command |-> command]

\* Cyrillic letters of the command words, by their code points
Cy_a == "U+0430"
Cy_b == "U+0431"
Cy_v == "U+0432"
Cy_d == "U+0434"
Cy_e == "U+0435"
Cy_z == "U+0437"
Cy_i == "U+0438"
Cy_k == "U+043A"
Cy_l == "U+043B"
Cy_m == "U+043C"
Cy_n == "U+043D"
Cy_o == "U+043E"
Cy_p == "U+043F"
Cy_r == "U+0440"
Cy_s == "U+0441"
Cy_t == "U+0442"
Cy_u == "U+0443"
Cy_y == "U+044B"
Cy_soft == "U+044C"
Cy_ya == "U+044F"

\* TEXT_CMD_PATTERN: the words of its group, in its order, and the command
\* each one stands for
TEXT_CMD_PATTERN ==
    <<CmdWord(<<Cy_m, Cy_u, Cy_t>>, "mute"),
      CmdWord(<<"m", "u", "t", "e">>, "mute"),
      CmdWord(<<Cy_r, Cy_a, Cy_z, Cy_m, Cy_u, Cy_t>>, "unmute"),
      CmdWord(<<Cy_a, Cy_n, Cy_m, Cy_u, Cy_t>>, "unmute"),
      CmdWord(<<"u", "n", "m", "u", "t", "e">>, "unmute"),
      CmdWord(<<Cy_b, Cy_a, Cy_n>>, "ban"),
      CmdWord(<<"b", "a", "n">>, "ban"),
      CmdWord(<<Cy_r, Cy_a, Cy_z, Cy_b, Cy_a, Cy_n>>, "unban"),
      CmdWord(<<Cy_a, Cy_n, Cy_b, Cy_a, Cy_n>>, "unban"),
      CmdWord(<<"u", "n", "b", "a", "n">>, "unban"),
      CmdWord(<<Cy_k, Cy_i, Cy_k>>, "kick"),
      CmdWord(<<"k", "i", "c", "k">>, "kick")>>

\* WARN_CMD_PATTERN
WARN_CMD_PATTERN ==
    <<CmdWord(<<"w", "a", "r", "n">>, "warn"),
      CmdWord(<<Cy_v, Cy_a, Cy_r, Cy_n>>, "warn"),
      CmdWord(<<"u", "n", "w", "a", "r", "n">>, "unwarn"),
      CmdWord(<<Cy_s, Cy_n, Cy_ya, Cy_t, Cy_soft, Cy_v, Cy_a, Cy_r, Cy_n>>, "unwarn"),
      CmdWord(<<"w", "a", "r", "n", "s">>, "warns"),
      CmdWord(<<Cy_v, Cy_a, Cy_r, Cy_n, Cy_y>>, "warns")>>

\* REPORT_CMD_PATTERN
REPORT_CMD_PATTERN ==
    <<CmdWord(<<"a", "d", "m", "i", "n">>, "report"),
      CmdWord(<<Cy_a, Cy_d, Cy_m, Cy_i, Cy_n>>, "report"),
      CmdWord(<<"r", "e", "p", "o", "r", "t">>, "report"),
      CmdWord(<<Cy_r, Cy_e, Cy_p, Cy_o, Cy_r, Cy_t>>, "report")>>

\* RULES_CMD_PATTERN `^!(...)$`: no argument may follow
RULES_CMD_PATTERN ==
    <<CmdWord(<<Cy_p, Cy_r, Cy_a, Cy_v, Cy_i, Cy_l, Cy_a>>, "rules"),
      CmdWord(<<"r", "u", "l", "e", "s">>, "rules")>>

rules_matches(text) ==
    \E i \in 1..Len(RULES_CMD_PATTERN) :
        LET word == RULES_CMD_PATTERN[i].word
        IN  /\ text # <<>> /\ Head(text) = "!"
            /\ lower(Tail(text)) \in {word, word \o <<"\n">>}

\* The name of a slash command as Command() is given it
SlashName(command) ==
    CASE command = "ban"    -> <<"b", "a", "n">>
      [] command = "unban"  -> <<"u", "n", "b", "a", "n">>
      [] command = "mute"   -> <<"m", "u", "t", "e">>
      [] command = "unmute" -> <<"u", "n", "m", "u", "t", "e">>
      [] command = "kick"   -> <<"k", "i", "c", "k">>
      [] command = "warn"   -> <<"w", "a", "r", "n">>
      [] command = "unwarn" -> <<"u", "n", "w", "a", "r", "n">>
      [] command = "warns"  -> <<"w", "a", "r", "n", "s">>

Handler(name, form, command) == [name |-> name, form |-> form, command |-> command]

\* The command of the first word of the pattern that matches
matched(found, words) ==
    words[CHOOSE i \in found : \A j \in found : i <= j].command

\* Variant: the anti-spam router included first.
route_antispam_first(text) == Handler("antispam_handler", "", "")

\* The handler a group message of a user is given to: the first one whose
\* filter passes, the message handlers of the moderation router taken in the
\* order the sub-routers are included and the handlers are registered.
\* text: message.text (<<>>: the message has none).
route(text) ==
    IF Command(text, SlashName("ban")) THEN Handler("cmd_ban", "slash", "ban")
    ELSE IF Command(text, SlashName("unban")) THEN Handler("cmd_unban", "slash", "unban")
    ELSE IF Command(text, SlashName("mute")) THEN Handler("cmd_mute", "slash", "mute")
    ELSE IF Command(text, SlashName("unmute")) THEN Handler("cmd_unmute", "slash", "unmute")
    ELSE IF Command(text, SlashName("kick")) THEN Handler("cmd_kick", "slash", "kick")
    ELSE IF Command(text, SlashName("warn")) THEN Handler("cmd_warn", "slash", "warn")
    ELSE IF Command(text, SlashName("unwarn")) THEN Handler("cmd_unwarn", "slash", "unwarn")
    ELSE IF Command(text, SlashName("warns")) THEN Handler("cmd_warns", "slash", "warns")
    ELSE IF regexp(text, {"!", "/"}, FALSE, WARN_CMD_PATTERN) # {}
    THEN Handler("text_warn_command", "text",
                 matched(regexp(text, {"!", "/"}, FALSE, WARN_CMD_PATTERN),
                         WARN_CMD_PATTERN))
    ELSE IF regexp(text, {"!"}, TRUE, TEXT_CMD_PATTERN) # {}
    THEN Handler("text_moderation_command", "text",
                 matched(regexp(text, {"!"}, TRUE, TEXT_CMD_PATTERN),
                         TEXT_CMD_PATTERN))
    ELSE IF rules_matches(text) THEN Handler("handle_rules_command", "text", "rules")
    ELSE IF regexp(text, {"!", "/"}, FALSE, REPORT_CMD_PATTERN) # {}
    THEN Handler("report_command", "text", "report")
    ELSE Handler("antispam_handler", "", "")

\* are_report_cmds_enabled
are_report_cmds_enabled(chat_row) ==
    IF chat_row.exists THEN chat_row.enable_report_cmds ELSE TRUE

\* report_command: the notice to the owner and the answer; send_ok = FALSE:
\* the notice raises.
report_command(msg, chat_row, send_ok) ==
    IF msg.chat_type = "private" \/ msg.from_user = 0 THEN <<>>
    ELSE IF ~are_report_cmds_enabled(chat_row) THEN <<>>
    ELSE IF ~chat_row.exists \/ chat_row.activated_by = 0
    THEN <<CallAnswer(<<"not_activated">>)>>
    ELSE IF send_ok
    THEN <<CallSend(chat_row.activated_by, <<"report">>), CallAnswer(<<"report_sent">>)>>
    ELSE <<CallAnswer(<<"report_failed">>)>>

\* handle_rules_command
handle_rules_command(has_rules) ==
    <<CallAnswer(IF has_rules THEN <<"rules">> ELSE <<"no_rules">>)>>

-----------------------------------------------------------------------------
(* SpecRoute: group messages of members and administrators, with and       *)
(* without a command in their text, each given to its handler              *)

RouteMaxMsgs == 2

T_ban == <<"b", "a", "n">>
T_warn == <<"w", "a", "r", "n">>

\* Texts of the messages
RouteTexts ==
    {<<"b">>,
     <<"/">> \o T_ban,
     <<"/">> \o T_ban \o <<" ", "2">>,
     <<"/">> \o T_ban \o <<"@", "B", "o", "t">>,
     <<"/">> \o T_ban \o <<"@", "x">>,
     <<"/", "B", "a", "n">>,
     T_ban \o <<" ", "2">>,
     <<"B", "a", "n">>,
     <<"!">> \o T_ban \o <<"\n", "2">>,
     T_ban \o <<" ", "2", "\n", "b">>,
     T_ban \o <<"b">>,
     <<"a", " ">> \o T_ban,
     <<Cy_k, Cy_i, Cy_k, " ", "2">>,
     <<"/", "k", "i", "c", "k", " ", "2">>,
     <<"/">> \o T_warn \o <<" ", "2">>,
     <<"!">> \o T_warn \o <<"s">>,
     T_warn \o <<" ", "2">>,
     <<"!", "a", "d", "m", "i", "n", " ", "b">>,
     <<"a", "d", "m", "i", "n">>,
     <<"!", "r", "u", "l", "e", "s">>}

\* The Chat row as the handlers of SpecRoute read it
RouteRow(enabled) ==
    [exists |-> TRUE, enable_moderation_cmds |-> enabled,
     enable_report_cmds |-> enabled, bad_words_enabled |-> TRUE,
     activated_by |-> Alice]

\* What the sender is to the chat: Alice administers it, Bob is a member.
RouteSender(user) == IF user = Alice THEN AdminResp ELSE DefaultSender

\* A message of a user arrives in the group; the dispatcher gives it to the
\* first handler whose filter passes, and that handler runs.
RouteMessage ==
    /\ nextMsgId <= RouteMaxMsgs
    /\ \E text \in RouteTexts, from_user \in {Alice, Bob}, enabled \in BOOLEAN :
       \E h \in {route(text)} :
       \E args \in {IF h.form = "slash" THEN Tail(split(text))
                    ELSE split(group2(text))} :
          LET cmd  == CommandMessage(GroupChat, "group", from_user, 0, args, 0,
                                     nextMsgId)
              env  == [DefaultCmdEnv EXCEPT !.chat_row = RouteRow(enabled),
                                            !.actor = RouteSender(from_user)]
              msg  == [chat |-> GroupChat, from_user |-> from_user,
                       text |-> text, caption |-> <<>>, message_id |-> nextMsgId]
              cenv == ChainEnv(RouteSender(from_user), DefaultBot, TRUE,
                               [chat_row |-> RouteRow(enabled), filters |-> <<>>])
              run  == [op |-> "route", text |-> text, from_user |-> from_user,
                       enabled |-> enabled, handler |-> h.name,
                       message_id |-> nextMsgId, calls |-> <<>>,
                       stages |-> <<>>]
          IN  CASE h.name = "antispam_handler" ->
                     \E r \in {antispam_handler(user_messages, recent_spam_mutes,
                                                message_stats, username_cache,
                                                now, msg, cenv)} :
                        /\ user_messages' = r.um
                        /\ recent_spam_mutes' = r.rsm
                        /\ message_stats' = r.stats
                        /\ username_cache' = r.cache
                        /\ last' = [run EXCEPT !.calls = r.calls, !.stages = r.stages]
                        /\ UNCHANGED warns
                [] h.name = "text_moderation_command" ->
                     \E tr \in {text_moderation_command(h.command, cmd, env,
                                                        username_cache, now)} :
                        /\ username_cache' = tr.cache
                        /\ last' = [run EXCEPT !.calls = tr.calls]
                        /\ UNCHANGED <<user_messages, recent_spam_mutes,
                                       message_stats, warns>>
                [] h.command \in WarnCommands ->
                     \E wr \in {warn_command(h.form, h.command, cmd, env, warns)} :
                        /\ warns' = wr.rows
                        /\ last' = [run EXCEPT !.calls = wr.calls]
                        /\ UNCHANGED <<user_messages, recent_spam_mutes,
                                       message_stats, username_cache>>
                [] h.name = "report_command" ->
                     /\ last' = [run EXCEPT
                                   !.calls = report_command(cmd, RouteRow(enabled), TRUE)]
                     /\ UNCHANGED <<user_messages, recent_spam_mutes,
                                    message_stats, username_cache, warns>>
                [] h.name = "handle_rules_command" ->
                     /\ last' = [run EXCEPT !.calls = handle_rules_command(FALSE)]
                     /\ UNCHANGED <<user_messages, recent_spam_mutes,
                                    message_stats, username_cache, warns>>
                [] OTHER ->
                     /\ last' = [run EXCEPT
                                   !.calls = slash_command(h.command, cmd, env, now)]
                     /\ UNCHANGED <<user_messages, recent_spam_mutes,
                                    message_stats, username_cache, warns>>
    /\ nextMsgId' = nextMsgId + 1
    /\ UNCHANGED <<now, arrivals>>
    /\ UNCHANGED task_vars

RouteNext == RouteMessage

SpecRoute == Init /\ [][RouteNext]_vars

-----------------------------------------------------------------------------
(* SpecKick: kick commands, slash and bare-word, whose ban or unban the    *)
(* platform may refuse                                                     *)

KickMaxMsgs == 1

\* Whether the platform holds the target banned after the calls of a run:
\* a ban that succeeded, not followed by an unban that succeeded.
banned_after(calls, env) ==
    /\ "ban_chat_member" \in Methods(calls)
    /\ env.call_ok
    /\ ~("unban_chat_member" \in Methods(calls) /\ env.unban_ok)

KickInputs ==
    {CmdInput("group", reply_to, args,
              [DefaultCmdEnv EXCEPT !.call_ok = call_ok, !.unban_ok = unban_ok,
                                    !.actor = actor]) :
        reply_to \in {0, Bob, Carol}, args \in {<<>>, <<ArgBobId>>, <<ArgWord>>},
        call_ok \in BOOLEAN, unban_ok \in BOOLEAN,
        actor \in {AdminResp, DefaultSender}}

\* A kick command arrives, as /kick or as the bare word.
KickCommand ==
    /\ nextMsgId <= KickMaxMsgs
    /\ \E form \in Forms, in \in KickInputs :
       \E msg \in {message_of(in, nextMsgId)} :
       \E r \in {IF form = "slash"
                 THEN [calls |-> cmd_kick(msg, in.env), cache |-> username_cache]
                 ELSE text_moderation_command("kick", msg, in.env,
                                              username_cache, now)} :
          /\ username_cache' = r.cache
          /\ last' = [op |-> form, command |-> "kick", msg |-> msg,
                      env |-> in.env, calls |-> r.calls,
                      banned |-> banned_after(r.calls, in.env)]
    /\ nextMsgId' = nextMsgId + 1
    /\ UNCHANGED <<now, user_messages, recent_spam_mutes, message_stats,
                   warns, arrivals>>
    /\ UNCHANGED task_vars

KickNext == KickCommand

SpecKick == Init /\ [][KickNext]_vars

-----------------------------------------------------------------------------
(* SpecFail: the five moderation commands, slash and bare-word, and the    *)
(* buttons, with mutating calls the platform refuses                       *)

FailMaxMsgs == 1

FailInputs ==
    {CmdInput("group", reply_to, args,
              [DefaultCmdEnv EXCEPT !.call_ok = call_ok, !.unban_ok = unban_ok]) :
        reply_to \in {Bob}, args \in {<<>>, <<ArgMinute>>, <<ArgWord>>},
        call_ok \in BOOLEAN, unban_ok \in BOOLEAN}
    \cup {CmdInput("group", 0, <<ArgBobId>>,
                   [DefaultCmdEnv EXCEPT !.call_ok = call_ok]) : call_ok \in BOOLEAN}

FailSlash == SlashCommand(FailInputs, FailMaxMsgs)

FailText == TextCommand(FailInputs, FailMaxMsgs)

FailNext == FailSlash \/ FailText \/ ButtonPress

SpecFail == Init /\ [][FailNext]_vars

-----------------------------------------------------------------------------
(* SpecFrame: messages of one member in two chats and of another member,   *)
(* each handled by antispam_handler                                        *)

FrameMaxTime == 1
FrameMaxMsgs == 6

\* The (chat, user) pairs that write
FrameKeys == {<<GroupChat, Bob>>, <<OtherChat, Bob>>, <<GroupChat, Carol>>}

FrameTick == Tick(FrameMaxTime)

\* A message of a member arrives in one of the chats.
FrameMessage ==
    /\ nextMsgId <= FrameMaxMsgs
    /\ \E key \in FrameKeys :
       \E msg \in {[chat |-> key[1], from_user |-> key[2],
                    text |-> DefaultContent.text, caption |-> <<>>,
                    message_id |-> nextMsgId]} :
       \E r \in {antispam_handler(user_messages, recent_spam_mutes,
                                  message_stats, username_cache, now, msg,
                                  ChainEnv(DefaultSender, DefaultBot, TRUE,
                                           DefaultStore))} :
          /\ user_messages' = r.um
          /\ recent_spam_mutes' = r.rsm
          /\ message_stats' = r.stats
          /\ username_cache' = r.cache
          /\ last' = [op |-> "antispam", at |-> now, msg |-> msg,
                      spam |-> r.spam, ids |-> r.ids, calls |-> r.calls,
                      stages |-> r.stages]
    /\ nextMsgId' = nextMsgId + 1
    /\ UNCHANGED <<now, warns, arrivals>>
    /\ UNCHANGED task_vars

FrameNext == FrameTick \/ FrameMessage

SpecFrame == Init /\ [][FrameNext]_vars

-----------------------------------------------------------------------------
(* SpecCache: an LRUUsernameCache of a small capacity, written as          *)
(* cache_user writes it and read by get_cached_user                        *)

CacheMaxSize == 2
CacheMaxOps == 5

\* The key cache_user writes for a user in a chat
CacheKey(chat_id, user) == <<chat_id, lower(username_of(user))>>

\* username_cache[key] = (user.id, user.full_name); the history lists the
\* keys in the order they were written or read.
CacheStore ==
    /\ nextMsgId <= CacheMaxOps
    /\ \E chat_id \in ChatIds, user \in {Alice, Bob} :
          /\ username_cache' = cache_setitem(username_cache, CacheKey(chat_id, user),
                                             <<user, full_name(user)>>, CacheMaxSize)
          /\ arrivals' = Append(arrivals, CacheKey(chat_id, user))
          /\ last' = [op |-> "cache", kind |-> "store",
                      key |-> CacheKey(chat_id, user), found |-> FALSE]
    /\ nextMsgId' = nextMsgId + 1
    /\ UNCHANGED <<now, user_messages, recent_spam_mutes, message_stats, warns>>
    /\ UNCHANGED task_vars

\* get_cached_user(chat_id, "@Name")
CacheLookup ==
    /\ nextMsgId <= CacheMaxOps
    /\ \E chat_id \in ChatIds, user \in {Alice, Bob} :
       \E r \in {get_cached_user(username_cache, chat_id,
                                 <<"@">> \o username_of(user))} :
          /\ username_cache' = r.cache
          /\ arrivals' = IF r.user_id # 0
                         THEN Append(arrivals, CacheKey(chat_id, user))
                         ELSE arrivals
          /\ last' = [op |-> "cache", kind |-> "lookup",
                      key |-> CacheKey(chat_id, user), found |-> r.user_id # 0]
    /\ nextMsgId' = nextMsgId + 1
    /\ UNCHANGED <<now, user_messages, recent_spam_mutes, message_stats, warns>>
    /\ UNCHANGED task_vars

CacheNext == CacheStore \/ CacheLookup

SpecCache == Init /\ [][CacheNext]_vars

-----------------------------------------------------------------------------
(* SpecWeek: messages counted day by day, and the owner's statistics       *)
(* src/src/handlers/admin_panel/stats.py                                   *)

WeekMaxDays == 7
WeekMaxMsgs == 2

RECURSIVE sum_message_count(_, _)
\* func.sum(MessageStats.message_count) over the selected rows
sum_message_count(rows, ids) ==
    IF ids = {} THEN 0
    ELSE LET k == CHOOSE x \in ids : TRUE
         IN  rows[k].message_count + sum_message_count(rows, ids \ {k})

\* (datetime.now(timezone.utc) - timedelta(days=7)).strftime("%Y-%m-%d")
week_ago(t) == today(t - 7 * 86400)

\* get_chat_stats: messages_week
get_chat_stats(rows, chat_id, t) ==
    sum_message_count(rows, {k \in 1..Len(rows) :
        rows[k].chat_id = chat_id /\ rows[k].date >= week_ago(t)})

\* update_message_stats run from its select to its commit
update_stats_rows(rows, chat_id, t) ==
    LET co == [Coroutine("stats", "select", chat_id, 0) EXCEPT !.seen = today(t)]
        read == stats_step(co, rows)
    IN  IF read.co.pc = "commit"
        THEN stats_step(read.co, read.stats_rows).stats_rows
        ELSE rows

WeekMidnight ==
    /\ today(now) < WeekMaxDays
    /\ now' = now + 86400
    /\ UNCHANGED <<nextMsgId, user_messages, recent_spam_mutes, message_stats,
                   username_cache, warns, arrivals, last>>
    /\ UNCHANGED task_vars

\* A group message is counted.
WeekMessage ==
    /\ nextMsgId <= WeekMaxMsgs
    /\ \E chat_id \in ChatIds :
          stats_rows' = update_stats_rows(stats_rows, chat_id, now)
    /\ nextMsgId' = nextMsgId + 1
    /\ UNCHANGED <<now, user_messages, recent_spam_mutes, message_stats,
                   username_cache, warns, arrivals, last>>
    /\ UNCHANGED <<chats, permissions, coroutines>>

\* The owner opens the statistics of a chat.
WeekStats ==
    /\ \E chat_id \in ChatIds :
          last' = [op |-> "stats", chat_id |-> chat_id, at |-> now,
                   rows |-> stats_rows,
                   messages_week |-> get_chat_stats(stats_rows, chat_id, now)]
    /\ UNCHANGED <<now, nextMsgId, user_messages, recent_spam_mutes,
                   message_stats, username_cache, warns, arrivals>>
    /\ UNCHANGED task_vars

WeekNext == WeekMidnight \/ WeekMessage \/ WeekStats

SpecWeek == Init /\ [][WeekNext]_vars

-----------------------------------------------------------------------------
(* SpecFormat: format_timedelta on durations around the unit boundaries    *)

FormatMaxDays == 2

\* Durations of whole seconds, none negative
FormatDurations ==
    {d * 86400 + h * 3600 + m * 60 + s :
        d \in 0..FormatMaxDays, h \in {0, 1, 23}, m \in {0, 1, 59},
        s \in {0, 1, 30, 59}}

Format ==
    /\ \E td \in FormatDurations :
          last' = [op |-> "format", total_seconds |-> td,
                   text |-> format_timedelta(td)]
    /\ UNCHANGED <<now, nextMsgId, user_messages, recent_spam_mutes,
                   message_stats, username_cache, warns, arrivals>>
    /\ UNCHANGED task_vars

FormatNext == Format

SpecFormat == Init /\ [][FormatNext]_vars

-----------------------------------------------------------------------------
(* Claims on the filter chain                                              *)

\* The step is a run of antispam_handler.
AntispamStep == nextMsgId' # nextMsgId /\ last'.op = "antispam"

LastKey == <<last.msg.chat, last.msg.from_user>>

\* The platform reported the sender as administrator or owner.
ReportedAdmin(resp) == resp.ok /\ resp.status \in {"administrator", "creator"}

\* The platform reported the bot as an administrator that may restrict.
ReportedCanRestrict(resp) ==
    resp.ok /\ resp.status = "administrator" /\ resp.can_restrict_members

\* The run went past the two early returns.
PassedGate(run) ==
    /\ run.msg.from_user # 0
    /\ ~ReportedAdmin(run.env.sender)
    /\ ReportedCanRestrict(run.env.bot)

\* A spam-mute was recorded for the key less than the cooldown ago.
RecentlyMuted(run) ==
    run.last_mute # NoTime /\ run.at - run.last_mute < SPAM_MUTE_COOLDOWN_SECONDS

RestrictCalls(calls) ==
    SelectSeq(calls, LAMBDA c : c.method = "restrict_chat_member")

\* C2: a flagged message of a key muted less than 10 s earlier leads to one
\* platform call only, the delete of that message: no restrict, no notice.
C2_CooldownSuppresses ==
    (last.op = "antispam" /\ last.spam /\ RecentlyMuted(last)) =>
        last.calls = <<CallDelete(last.msg.chat, last.msg.message_id)>>

\* C2 witness: a flagged message 9 s after the mute, answered by the delete.
C2_Witness ==
    /\ last.op = "antispam" /\ last.spam
    /\ last.last_mute # NoTime /\ last.at - last.last_mute = 9
    /\ Methods(last.calls) = {"delete_message"}

\* C3: a flagged message of a key with no spam-mute in the last 10 s (none,
\* or one 10 s old or older) leads to exactly one restrict call, a mute
\* until now + 5 minutes; if the call succeeds the key's cooldown timestamp
\* is now.
C3_MuteOutsideCooldown ==
    (last.op = "antispam" /\ last.spam /\ ~RecentlyMuted(last)) =>
        /\ RestrictCalls(last.calls) =
              <<CallRestrict(last.msg.chat, last.msg.from_user,
                             last.at + SPAM_MUTE_DURATION, <<"mute">>)>>
        /\ last.env.restrict_ok => recent_spam_mutes[LastKey] = last.at

\* C3 witness: a second mute exactly 10 s after the first.
C3_Witness ==
    /\ last.op = "antispam" /\ last.spam
    /\ last.last_mute # NoTime /\ last.at - last.last_mute = 10
    /\ last.env.restrict_ok
    /\ recent_spam_mutes[LastKey] = last.at
    /\ "restrict_chat_member" \in Methods(last.calls)

\* The message text (or, without text, the caption) holds a word of the
\* banned-word list, whatever the case of its letters.
HasBannedWord(msg) ==
    LET text == IF msg.text # <<>> THEN msg.text ELSE msg.caption
    IN  \E i \in 1..Len(text) : \E j \in i..Len(text) :
            lower(SubSeq(text, i, j)) \in load_bad_words

\* Banned-word filtering is on for the chat and the message holds one.
BannedWordHit(run) ==
    /\ run.env.chat_row.exists
    /\ run.env.chat_row.bad_words_enabled
    /\ HasBannedWord(run.msg)

\* The counter is incremented once and the two filter stages follow; the
\* per-user stage is left out only when the banned-word stage deleted.
ChainGoesOn(run) ==
    /\ message_stats' = message_stats + 1
    /\ Len(SelectSeq(run.stages, LAMBDA st : st = "stats")) = 1
    /\ "bad_words" \in Range(run.stages)
    /\ BannedWordHit(run) \/ "user_filters" \in Range(run.stages)

\* The handler returned after the detector stage: counter as it was.
ChainStops(run) ==
    /\ message_stats' = message_stats
    /\ run.stages = <<"cache", "permissions", "detector">>

\* C4 as stated: for every message that passes the two early returns,
\* whatever the detector's outcome, the daily counter is incremented once
\* and the banned-word and per-user filter stages are evaluated.
C4_ChainNeverStops ==
    [][(AntispamStep /\ PassedGate(last')) => ChainGoesOn(last')]_vars

\* C4 amended: the counter is incremented once and the filter stages are
\* evaluated when the message is not spam, or is spam and the mute was
\* attempted (succeeded or failed); when the cooldown suppresses the mute
\* the handler returns after the delete: no counter update, no filter stage.
C4_ChainStopsOnlyInCooldown ==
    [][(AntispamStep /\ PassedGate(last')) =>
          IF last'.spam /\ RecentlyMuted(last')
          THEN ChainStops(last')
          ELSE ChainGoesOn(last')]_vars

\* C4 witness: a cooldown-suppressed run that ended after the detector,
\* in a chat whose counter earlier runs had incremented.
C4_Witness ==
    /\ last.op = "antispam" /\ last.spam /\ RecentlyMuted(last)
    /\ last.stages = <<"cache", "permissions", "detector">>
    /\ message_stats >= SPAM_MAX_MESSAGES + 1
    /\ message_stats < last.msg.message_id

\* C5: with banned-word filtering on and a banned word in the text or
\* caption, the run ends with the delete of the message: the per-user
\* stage is not entered and no notification is sent.
C5_BannedWordStopsChain ==
    (last.op = "antispam" /\ "bad_words" \in Range(last.stages)
        /\ BannedWordHit(last)) =>
        /\ last.calls # <<>>
        /\ last.calls[Len(last.calls)] =
               CallDelete(last.msg.chat, last.msg.message_id)
        /\ "user_filters" \notin Range(last.stages)
        /\ "send_message" \notin Methods(last.calls)

\* C5 witness: a banned word in mixed case, sent by a user whose active
\* allow filter with notification would have let the message stay.
C5_Witness ==
    /\ last.op = "antispam" /\ BannedWordHit(last)
    /\ last.msg.text = <<"a", "B">>
    /\ \E i \in 1..Len(last.env.filters) :
          LET f == last.env.filters[i]
          IN  /\ f.is_active /\ f.filter_type = "allow" /\ f.notify
              /\ f.user_id = last.msg.from_user
              /\ ~should_filter_message(lower(last.msg.text), f)
    /\ last.calls = <<CallDelete(last.msg.chat, last.msg.message_id)>>

\* C6: a run whose sender is reported as admin, or whose bot is not
\* reported as able to restrict, issues no platform call, does not reach
\* the detector and leaves the spam-window lists, the cooldown map and the
\* daily counter as they were.
C6_EarlyReturnFrame ==
    [][(AntispamStep /\ last'.msg.from_user # 0
          /\ (ReportedAdmin(last'.env.sender)
                \/ ~ReportedCanRestrict(last'.env.bot))) =>
          /\ last'.calls = <<>>
          /\ "detector" \notin Range(last'.stages)
          /\ UNCHANGED <<user_messages, recent_spam_mutes, message_stats>>]_vars

\* C6 witness: an admin's message arriving when the key's list already
\* holds SPAM_MAX_MESSAGES entries of the window; the list stays.
C6_Witness ==
    /\ last.op = "antispam" /\ ReportedAdmin(last.env.sender)
    /\ last.calls = <<>>
    /\ Len(user_messages[LastKey]) = SPAM_MAX_MESSAGES
    /\ \A i \in 1..SPAM_MAX_MESSAGES :
          last.at - user_messages[LastKey][i][1] < SPAM_TIME_WINDOW
    /\ username_cache.order # <<>>

-----------------------------------------------------------------------------
(* Claims on the detector                                                  *)

\* The arrivals of the history that are less than the window old at time t.
InWindow(t) == SelectSeq(arrivals, LAMBDA e : t - e[1] < SPAM_TIME_WINDOW)

\* C1: on every arrival the detector returns spam exactly when more than
\* SPAM_MAX_MESSAGES arrivals of the key (this one included) lie in the
\* window ending now, i.e. are less than SPAM_TIME_WINDOW seconds old; the
\* ids returned are then those of exactly these arrivals, in arrival order,
\* and they are the entries the key's list still tracks.
C1_SlidingWindow ==
    last.op = "detector" =>
        LET win == InWindow(last.at)
        IN  /\ last.spam <=> Len(win) > SPAM_MAX_MESSAGES
            /\ last.spam => last.ids = SeqMap(MsgIdOf, win)
            /\ user_messages[SpamKey] = win

\* C1 witness: a flagged arrival whose list has lost pruned arrivals.
C1_Witness ==
    /\ last.op = "detector"
    /\ last.spam
    /\ Len(last.ids) = SPAM_MAX_MESSAGES + 1
    /\ Len(arrivals) > Len(last.ids)

-----------------------------------------------------------------------------
(* Claims on the commands, the buttons and the warns                       *)

EnforcementCalls(calls) ==
    SelectSeq(calls, LAMBDA c : c.method \in {"ban_chat_member",
                                              "restrict_chat_member",
                                              "unban_chat_member"})

BanCalls(calls) == SelectSeq(calls, LAMBDA c : c.method = "ban_chat_member")

\* C7: no ban, restrict or unban call of a slash or bare-word moderation
\* command is issued against the actor, the bot, or a target the platform
\* reports as chat admin.
C7_TargetGuardBeforeAction ==
    last.op \in {"slash", "text"} =>
        \A i \in 1..Len(EnforcementCalls(last.calls)) :
            LET call == EnforcementCalls(last.calls)[i]
            IN  /\ call.target # last.msg.from_user
                /\ call.target # BotId
                /\ ~ReportedAdmin(last.env.target)

\* The commands C8 speaks of: the five moderation verbs in both forms, warn
\* and unwarn in both forms.
Guarded(run) ==
    \/ run.op \in {"slash", "text"}
    \/ run.op = "warn" /\ run.command \in {"warn", "unwarn"}

GuardedStep == nextMsgId' # nextMsgId /\ Guarded(last')

InPrivate(run) == run.msg.chat_type = "private"

\* One of the three checks fails: group, actor is admin, and for the five
\* moderation verbs the bot's restrict capability.
CheckFails(run) ==
    \/ InPrivate(run)
    \/ ~ReportedAdmin(run.env.actor)
    \/ run.op \in {"slash", "text"} /\ ~ReportedCanRestrict(run.env.bot)

\* The message of the first failed check.
OwnError(run) ==
    IF InPrivate(run) THEN <<"group_only">>
    ELSE IF ~ReportedAdmin(run.env.actor) THEN <<"not_admin">>
    ELSE IF run.op = "text" THEN <<"no_moderation_rights">>
    ELSE CASE run.command = "ban"  -> <<"no_ban_rights">>
           [] run.command = "mute" -> <<"no_restrict_rights">>
           [] run.command = "kick" -> <<"no_kick_rights">>
           [] OTHER                -> <<"no_manage_rights">>

\* No platform call but the answer, no Store mutation, no cache write.
Untouched(run) ==
    /\ \A i \in 1..Len(run.calls) : run.calls[i].method = "answer"
    /\ warns' = warns
    /\ username_cache' = username_cache

CommandsOff(run) ==
    run.env.chat_row.exists /\ ~run.env.chat_row.enable_moderation_cmds

\* The command is dropped without any answer: a bare-word command in a
\* private chat, and every command of a chat whose moderation commands are
\* switched off, except /warn and /unwarn in a private chat.
DroppedSilently(run) ==
    \/ InPrivate(run) /\ (run.op = "text" \/ (run.op = "warn" /\ run.form = "text"))
    \/ CommandsOff(run) /\ ~(InPrivate(run) /\ run.op = "warn" /\ run.form = "slash")

\* C8 as stated: a command whose check fails touches neither the platform
\* nor the Store and answers with the error message of the failed check.
C8_FailedCheckAnswered ==
    [][(GuardedStep /\ CheckFails(last')) =>
          /\ Untouched(last')
          /\ last'.calls = <<CallAnswer(OwnError(last'))>>]_vars

\* C8 amended: a command whose check fails touches neither the platform nor
\* the Store; it answers with the error message of the first failed check,
\* unless it is dropped silently (bare-word form in a private chat;
\* moderation commands switched off for the chat), then it answers nothing.
C8_FailedCheckAborts ==
    [][(GuardedStep /\ CheckFails(last')) =>
          /\ Untouched(last')
          /\ last'.calls = IF DroppedSilently(last') THEN <<>>
                           ELSE <<CallAnswer(OwnError(last'))>>]_vars

\* C8 witness: a bare-word command in a private chat got no answer, with a
\* warn in the Store.
C8_Witness ==
    /\ last.op = "text" /\ InPrivate(last) /\ ~CommandsOff(last)
    /\ last.calls = <<>>
    /\ warns # <<>>

\* C9: the three permission queries answer FALSE to a failed
\* get_chat_member; a command or button whose actor lookup fails, and a
\* command whose bot lookup fails, issue no ban, restrict or unban call; a
\* filter-chain run whose bot lookup fails issues no call at all.
C9_FailClosed ==
    /\ ~is_user_admin(MemberError)
    /\ ~can_bot_restrict(MemberError)
    /\ ~can_bot_delete(MemberError)
    /\ (last.op \in {"slash", "text", "warn", "button"} /\ ~last.env.actor.ok) =>
           EnforcementCalls(last.calls) = <<>>
    /\ (last.op \in {"slash", "text", "warn"} /\ ~last.env.bot.ok) =>
           EnforcementCalls(last.calls) = <<>>
    /\ (last.op = "antispam" /\ ~last.env.bot.ok) => last.calls = <<>>

\* C9 witness: a press of an admin's button whose admin lookup failed was
\* refused.
C9_Witness ==
    /\ last.op = "button" /\ ~last.env.actor.ok
    /\ last.callback.from_user # 0 /\ last.callback.data_user # 0
    /\ last.calls = <<CallAlert(<<"admins_only">>)>>

\* C10: a warn below the threshold issues no ban; a warn that brings the
\* count of the reconciled target to MAX_WARNS, with the bot able to
\* restrict and the ban call succeeding, issues exactly one ban call, for
\* that target, and leaves the target without warns.
C10_ThirdWarnBans ==
    (last.op = "warn" /\ last.command = "warn" /\ last.added) =>
        /\ last.count < MAX_WARNS => BanCalls(last.calls) = <<>>
        /\ (/\ last.count >= MAX_WARNS
            /\ last.final_user_id # 0
            /\ ReportedCanRestrict(last.env.bot)
            /\ last.env.call_ok) =>
               /\ BanCalls(last.calls) =
                      <<CallBan(last.msg.chat, last.final_user_id, 0)>>
               /\ count_rows(warns, last.msg.chat, last.final_user_id, <<>>) = 0

-----------------------------------------------------------------------------
(* Claims on the warn table                                                *)

\* The rows of the chat that match the target by user id or by username.
TargetRows(rows, chat_id, user_id, username) ==
    SelectSeq(rows, LAMBDA r : /\ r.chat_id = chat_id
                               /\ \/ r.user_id = user_id
                                  \/ r.username = username)

\* warned: what add_warn returned.  With both identifiers known, every row
\* of the target carries both and the count is the number of those rows.
Backfilled(warned, chat_id) ==
    (warned.final_user_id # 0 /\ warned.final_username # <<>>) =>
        /\ \A i \in 1..Len(warned.rows) :
              (/\ warned.rows[i].chat_id = chat_id
               /\ \/ warned.rows[i].user_id = warned.final_user_id
                  \/ warned.rows[i].username = warned.final_username) =>
                 /\ warned.rows[i].user_id = warned.final_user_id
                 /\ warned.rows[i].username = warned.final_username
        /\ warned.count = Len(TargetRows(warned.rows, chat_id,
                                         warned.final_user_id,
                                         warned.final_username))

WarnAddedStep == nextMsgId' # nextMsgId /\ last'.op = "warn" /\ last'.added

\* The add_warn call of the warn command that has just run.
AddWarnOf(run, target, rows) ==
    add_warn(rows, run.msg.chat, target.user_id, target.username,
             run.msg.from_user, run.env)

\* C11: after add_warn with the target's user id and username both known
\* (given, enriched or found in the rows), every Warn row of the chat that
\* matches the target by id or by username carries both identifiers, and
\* the count returned is the number of those rows, the new one included.
C11_MergeBackfills ==
    [][WarnAddedStep =>
          /\ Backfilled(AddWarnOf(last', warn_target(last'.msg, last'.env), warns),
                        last'.msg.chat)
          /\ last'.count =
                 AddWarnOf(last', warn_target(last'.msg, last'.env), warns).count]_vars

\* C11 witness: a warn by @username that the platform could not resolve was
\* reconciled with the rows: three rows, all with Bob's id and username.
C11_Witness ==
    /\ last.op = "warn" /\ last.added
    /\ warn_target(last.msg, last.env).user_id = 0
    /\ last.final_user_id = Bob
    /\ last.count = 3
    /\ Len(warns) = 3
    /\ \A i \in 1..3 : warns[i].user_id = Bob /\ warns[i].username = <<"b", "a">>
    /\ \E i \in 1..3 : warns[i].warned_by = Alice

-----------------------------------------------------------------------------
(* Claims on the mute floor                                                *)

\* A /mute or bare-word mute that passed the permission checks and has a
\* valid target.
MuteRun(run) ==
    /\ run.op \in {"slash", "text"} /\ run.command = "mute"
    /\ ~CheckFails(run) /\ ~CommandsOff(run)
    /\ \/ run.msg.reply_to = Bob
       \/ run.msg.reply_to = 0 /\ run.msg.args # <<>> /\ run.msg.args[1] = ArgBobId
    /\ ~ReportedAdmin(run.env.target)

\* The word in the duration position: the first word after the target.
DurationWord(run) ==
    IF run.msg.reply_to # 0
    THEN IF run.msg.args # <<>> THEN run.msg.args[1] ELSE <<>>
    ELSE IF Len(run.msg.args) > 1 THEN run.msg.args[2] ELSE <<>>

\* The word is written as one duration: digits and a unit letter.
ExplicitDuration(w) ==
    /\ Len(w) > 1
    /\ isdigit(SubSeq(w, 1, Len(w) - 1))
    /\ w[Len(w)] \in {"w", "d", "h", "m", "s"}

\* The seconds such a word stands for.
SecondsOf(w) ==
    to_int(SubSeq(w, 1, Len(w) - 1)) *
        (CASE w[Len(w)] = "w" -> 604800 [] w[Len(w)] = "d" -> 86400
           [] w[Len(w)] = "h" -> 3600   [] w[Len(w)] = "m" -> 60
           [] OTHER -> 1)

MuteRejected(run) == run.calls = <<CallAnswer(<<"mute_too_short">>)>>

\* Every mute that reaches the platform at time t is untimed or lasts 30 s
\* or more.
MuteCallsRespectFloor(run, t) ==
    \A i \in 1..Len(run.calls) :
        run.calls[i].method = "restrict_chat_member" =>
            \/ run.calls[i].arg = 0
            \/ run.calls[i].arg >= t + MIN_MUTE_SECONDS

MuteStep == nextMsgId' # nextMsgId /\ MuteRun(last')

\* C12 as stated: a mute whose duration word stands for less than 30
\* seconds is rejected with the validation message, and no mute reaches the
\* platform with a duration under 30 seconds.
C12_ShortMuteRejected ==
    [][MuteStep =>
          /\ (ExplicitDuration(DurationWord(last'))
                 /\ SecondsOf(DurationWord(last')) < MIN_MUTE_SECONDS) =>
                MuteRejected(last')
          /\ MuteCallsRespectFloor(last', now)]_vars

\* C12 amended: a mute whose duration word stands for 1 to 29 seconds is
\* rejected with the validation message and issues no restrict call; a word
\* that stands for zero seconds is no duration: the mute is issued untimed;
\* no mute reaches the platform with a duration under 30 seconds.
C12_FloorOnParsedDuration ==
    [][MuteStep =>
          /\ (ExplicitDuration(DurationWord(last'))
                 /\ SecondsOf(DurationWord(last')) > 0
                 /\ SecondsOf(DurationWord(last')) < MIN_MUTE_SECONDS) =>
                MuteRejected(last')
          /\ (ExplicitDuration(DurationWord(last'))
                 /\ SecondsOf(DurationWord(last')) = 0) =>
                last'.calls[1] = CallRestrict(last'.msg.chat, Bob, 0, <<"mute">>)
          /\ (ExplicitDuration(DurationWord(last'))
                 /\ SecondsOf(DurationWord(last')) >= MIN_MUTE_SECONDS) =>
                last'.calls[1] = CallRestrict(last'.msg.chat, Bob,
                                              now + SecondsOf(DurationWord(last')),
                                              <<"mute">>)
          /\ MuteCallsRespectFloor(last', now)]_vars

\* C12 witness: a bare-word mute of 29 seconds, the second command of the
\* run, was rejected.
C12_Witness ==
    /\ MuteRun(last) /\ last.op = "text"
    /\ DurationWord(last) = ArgBelow
    /\ MuteRejected(last)
    /\ last.msg.message_id = 2

-----------------------------------------------------------------------------
(* Claims on the Chat table                                                *)

\* C13: the Chat table never holds two rows with the active flag set,
\* whatever /setup commands and deactivations have run and however their
\* steps interleaved.
C13_AtMostOneActive == Cardinality(active_chats(chats)) <= 1

-----------------------------------------------------------------------------
(* Claims on the delayed reopen                                            *)

\* The run i of the post handler wakes from its sleep in this step.
Wakes(i) ==
    /\ coroutines[i].kind = "post" /\ coroutines[i].pc = "sleep"
    /\ coroutines'[i] # coroutines[i]

PersistedClosed(chat) == ~chats[chat].exists \/ chats[chat].is_closed

IsReopenCall(call) ==
    \/ call.method = "edit_message"
    \/ call.method = "set_chat_permissions" /\ call.tag = <<"all">>

ReopenCalls(co) == {k \in 1..Len(co.calls) : IsReopenCall(co.calls[k])}

\* C14: when the delay of a scheduled reopen is over, the run decides on
\* the closed flag the Chat row holds at that moment: with the flag set it
\* ends there, issuing no call and leaving the permissions as they are;
\* and a run issues the reopening calls (permissions restored, message
\* edited) only after it has read the flag as not set.
C14_ReopenDefers ==
    [][\A i \in TaskIds :
          /\ Wakes(i) =>
                /\ now >= coroutines[i].seen
                /\ IF PersistedClosed(coroutines[i].chat)
                   THEN /\ coroutines'[i].pc = "done"
                        /\ coroutines'[i].calls = coroutines[i].calls
                        /\ permissions' = permissions
                   ELSE coroutines'[i].pc = "open_chat"
          /\ coroutines'[i].kind = "post" /\ ReopenCalls(coroutines'[i]) # {}
                => coroutines'[i].flag]_vars

\* The owner closed the chat during the delay: the reopen has ended, has
\* issued no reopening call, and the chat is closed in the table and at
\* the platform.
C14_Witness ==
    \E i \in TaskIds :
        /\ coroutines[i].kind = "post" /\ coroutines[i].pc = "done"
        /\ coroutines[i].seen > 0 /\ ~coroutines[i].flag
        /\ ReopenCalls(coroutines[i]) = {}
        /\ chats[coroutines[i].chat].is_closed
        /\ ~permissions[coroutines[i].chat]
        /\ \E j \in TaskIds : /\ coroutines[j].kind = "toggle"
                              /\ coroutines[j].pc = "done"
                              /\ coroutines[j].flag

-----------------------------------------------------------------------------
(* Claims on the buttons                                                   *)

\* The last operation was a press by a user the platform did not report
\* as chat admin (a plain member, or no answer at all).
PressByNonAdmin == last.op = "button" /\ ~ReportedAdmin(last.env.actor)

EditCalls(calls) == SelectSeq(calls, LAMBDA c : c.method = "edit_message")

\* C15: a press of the unban or the unmute button by a user who is not
\* reported as chat admin issues no unban and no restrict call and does not
\* edit the pressed message.
C15_ButtonNeedsAdmin ==
    PressByNonAdmin =>
        /\ EnforcementCalls(last.calls) = <<>>
        /\ EditCalls(last.calls) = <<>>

\* An unmute button on a well-formed message is pressed while the platform
\* fails to tell the presser's status, and the press is turned down.
C15_Witness ==
    /\ PressByNonAdmin
    /\ last.kind = "unmute"
    /\ ~last.env.actor.ok
    /\ last.callback.has_message /\ last.callback.data_user # 0
    /\ last.calls = <<CallAlert(<<"admins_only">>)>>

-----------------------------------------------------------------------------
(* Claims on the two command syntaxes                                      *)

\* A slash or a bare-word moderation command is handled in this step.
ModerationStep == nextMsgId' # nextMsgId /\ last'.op \in {"slash", "text"}

\* What the slash handler issues for the command handled in this step.
AsSlash == slash_command(last'.command, last'.msg, last'.env, now)

\* What the bare-word handler issues for it.
AsText ==
    text_moderation_command(last'.command, last'.msg, last'.env,
                            username_cache, now).calls

\* C16: for the same verb, actor, reply, argument words, platform answers
\* and cache, the slash handler and the bare-word handler issue the same
\* sequence of calls.
C16_SameCalls == [][ModerationStep => AsSlash = AsText]_vars

-----------------------------------------------------------------------------
(* Claims on parse_timedelta                                               *)

\* The word parsed last is made of tokens only: digits and a modifier.
OnlyTokens == \A i \in 1..Len(last.pieces) :
                  last.pieces[i] \in LatinTokens \cup CyrillicTokens

\* value x unit-seconds of a token, the unit taken by its meaning.
TokenSeconds(token) ==
    to_int(SubSeq(token, 1, Len(token) - 1)) *
        (CASE token[Len(token)] \in {"w", CyrWeek}   -> 604800
           [] token[Len(token)] \in {"d", CyrDay}    -> 86400
           [] token[Len(token)] \in {"h", CyrHour}   -> 3600
           [] token[Len(token)] \in {"m", CyrMinute} -> 60
           [] token[Len(token)] \in {"s", CyrSecond} -> 1)

RECURSIVE SumOfTokens(_)
SumOfTokens(tokens) ==
    IF tokens = <<>> THEN 0
    ELSE TokenSeconds(Head(tokens)) + SumOfTokens(Tail(tokens))

\* The tokens in another order.
Permuted(tokens, p) == [i \in 1..Len(tokens) |-> tokens[p[i]]]

\* A token with the Latin letter of its unit.
latin_char(c) ==
    CASE c = CyrWeek   -> "w"
      [] c = CyrDay    -> "d"
      [] c = CyrHour   -> "h"
      [] c = CyrMinute -> "m"
      [] c = CyrSecond -> "s"
      [] OTHER         -> c

latin(piece) == SeqMap(latin_char, piece)

\* C17: for a word made of tokens, parse_timedelta returns the sum of
\* value x unit-seconds over the tokens (None for a sum of zero), returns
\* the same for every order of the tokens, and the same with each unit
\* written by its Latin or by its Cyrillic letter.
C17_OrderIndependent ==
    last.op = "parse" /\ OnlyTokens =>
        /\ last.result = IF SumOfTokens(last.pieces) = 0 THEN None
                         ELSE SumOfTokens(last.pieces)
        /\ \A p \in Permutations(1..Len(last.pieces)) :
              parse_timedelta(Concat(Permuted(last.pieces, p))) = last.result
        /\ parse_timedelta(Concat(SeqMap(latin, last.pieces))) = last.result
        /\ parse_timedelta(Concat(SeqMap(cyrillic, last.pieces))) = last.result

\* 1d12h30m, the day written in Cyrillic, is 131400 s, and so is 30m1d12h.
C17_Witness ==
    /\ last.op = "parse"
    /\ last.pieces = <<<<"1", CyrDay>>, <<"1", "2", "h">>, <<"3", "0", "m">>>>
    /\ last.result = 131400
    /\ parse_timedelta(<<"3", "0", "m", "1", "d", "1", "2", "h">>) = 131400

\* Position j of the word holds a modifier right after a digit: a token
\* ends there.
TokenEndsAt(s, j) == j > 1 /\ IsDigit(s[j - 1]) /\ IsModifier(s[j])

\* The digits before position j, back to the start of their run, are zeros.
RECURSIVE ZerosBefore(_, _)
ZerosBefore(s, j) ==
    j = 1 \/ ~IsDigit(s[j - 1]) \/ (s[j - 1] = "0" /\ ZerosBefore(s, j - 1))

\* First position of the run of digits that ends at position j.
RECURSIVE RunStart(_, _)
RunStart(s, j) == IF j > 1 /\ IsDigit(s[j - 1]) THEN RunStart(s, j - 1) ELSE j

\* The seconds of the tokens that end at position j or later: the digits
\* before a modifier, times the seconds of its unit.
RECURSIVE SecondsFrom(_, _)
SecondsFrom(s, j) ==
    IF j > Len(s) THEN 0
    ELSE (IF TokenEndsAt(s, j)
          THEN TokenSeconds(SubSeq(s, RunStart(s, j - 1), j))
          ELSE 0) + SecondsFrom(s, j + 1)

\* C18: parse_timedelta returns None exactly when no token of the lowered
\* word matches or every matching token has the value zero; otherwise it
\* returns the seconds of the tokens with a known unit, so that digits
\* before any other letter count for nothing; and every modifier it
\* matches is a key of the multipliers, so that no lookup fails.
C18_NoneIffNothingCounts ==
    last.op = "parse" =>
        /\ last.result = None <=>
              \A j \in 1..Len(last.time_str) :
                  TokenEndsAt(lower(last.time_str), j)
                      => ZerosBefore(lower(last.time_str), j)
        /\ last.result # None =>
              last.result = SecondsFrom(lower(last.time_str), 1)
        /\ \A k \in 1..Len(findall(lower(last.time_str), 1)) :
              TIME_MULTIPLIERS(findall(lower(last.time_str), 1)[k].modifier) # 0

\* A word with a token of value zero and a unit letter that is none: None.
\* And a word where the unknown letter stands next to a token that counts.
C18_Witness ==
    /\ last.op = "parse"
    /\ last.pieces = <<<<"0", "s">>, <<"5", "x">>>>
    /\ last.result = None
    /\ parse_timedelta(<<"5", "x", "1", "d">>) = 86400

-----------------------------------------------------------------------------
(* Claims on check_target_user                                             *)

TargetIsActor == last.user_id = last.msg.from_user

TargetIsBot == last.user_id = BotId

TargetIsAdmin == ReportedAdmin(last.env.target)

\* C19: check_target_user returns an error exactly when the target is the
\* actor, the bot, or reported as chat admin; the error is the one of the
\* first of the three that applies, in that order, and carries the action
\* verb; for every other target it returns None.
C19_TargetChecksInOrder ==
    last.op = "check_target" =>
        /\ last.result = <<>> <=> ~(TargetIsActor \/ TargetIsBot \/ TargetIsAdmin)
        /\ TargetIsActor => last.result = <<"cannot_self", last.action_name>>
        /\ ~TargetIsActor /\ TargetIsBot
              => last.result = <<"cannot_me", last.action_name>>
        /\ ~TargetIsActor /\ ~TargetIsBot /\ TargetIsAdmin
              => last.result = <<"cannot_admin", last.action_name>>

\* An admin checks themselves as the target: the answer is the one about
\* oneself, not the one about administrators.
C19_Witness ==
    /\ last.op = "check_target"
    /\ TargetIsActor /\ TargetIsAdmin /\ ~TargetIsBot
    /\ last.action_name = "mute"
    /\ last.result = <<"cannot_self", "mute">>

-----------------------------------------------------------------------------
(* Claims on the MessageStats table                                        *)

\* The runs of update_message_stats for a chat and a day.
StatsRuns(chat_id, date) ==
    {i \in TaskIds : /\ coroutines[i].kind = "stats"
                     /\ coroutines[i].chat = chat_id
                     /\ coroutines[i].seen = date}

\* C20: the table holds at most one row per chat and day, and once every
\* update of a chat and a day has ended, the count of that row is the
\* number of those updates, however their selects and commits interleaved.
C20_OneRowExactCount ==
    \A c \in ChatIds, d \in 0..StatsMaxDays :
        /\ Cardinality(select_stats(stats_rows, c, d)) <= 1
        /\ (/\ StatsRuns(c, d) # {}
            /\ \A i \in StatsRuns(c, d) : coroutines[i].pc = "done")
              => \E k \in select_stats(stats_rows, c, d) :
                    stats_rows[k].message_count = Cardinality(StatsRuns(c, d))

-----------------------------------------------------------------------------
(* Claims on the spam path                                                 *)

\* The run flagged the message as spam.
Flagged(run) == run.op = "antispam" /\ run.spam

\* The run of this step flagged its message and the mute went through:
\* no cooldown, and the restrict call succeeded.
MutedNow(run) == Flagged(run) /\ ~RecentlyMuted(run) /\ run.env.restrict_ok

\* The message ids the key's list tracks.
TrackedIds(um, key) == SeqMap(MsgIdOf, um[key])

\* C21 as stated: whenever the detector signals spam, the key's list is
\* empty once the flagged message has been handled.
C21_FlaggedListCleared ==
    [][(AntispamStep /\ Flagged(last')) =>
          user_messages'[<<last'.msg.chat, last'.msg.from_user>>] = <<>>]_vars

\* C21 amended: the list is cleared by the mute only.  A flagged run whose
\* mute went through leaves the list empty, so that none of its ids is
\* returned again; a flagged run inside the cooldown, or one whose restrict
\* call failed, leaves the list with exactly the ids it returned, and the
\* next detection of the window returns them again.
C21_ClearedByMuteOnly ==
    [][(AntispamStep /\ Flagged(last')) =>
          IF MutedNow(last')
          THEN user_messages'[<<last'.msg.chat, last'.msg.from_user>>] = <<>>
          ELSE /\ TrackedIds(user_messages', <<last'.msg.chat, last'.msg.from_user>>)
                     = last'.ids
               /\ last'.msg.message_id \in Range(last'.ids)]_vars

\* Two flagged runs in a row whose restrict calls failed: the second
\* returned the ids of the first once more, and the list still holds them.
C21_Witness ==
    /\ Flagged(last) /\ ~RecentlyMuted(last) /\ ~last.env.restrict_ok
    /\ TrackedIds(user_messages, LastKey) = last.ids
    /\ Len(last.ids) = SPAM_MAX_MESSAGES + 2
    /\ RestrictCalls(last.calls) # <<>>

\* The calls of a complete mute of run co: the restrict until five minutes
\* after the handler's now, a delete per flagged id in the list's order, the
\* notice.
ExpectedMute(co) ==
    <<CallRestrict(co.chat, co.user, co.seen + SPAM_MUTE_DURATION, <<"mute">>)>>
    \o [k \in 1..Len(co.ids) |-> CallDelete(co.chat, co.ids[k])]
    \o <<CallNotice(co.user)>>

Prefix(s, t) == Len(s) <= Len(t) /\ SubSeq(t, 1, Len(s)) = s

\* Run i takes a step of its mute: it resumes from a restrict that
\* succeeded, from a delete of the loop, or from the notice.
SpamMuteStep(i) ==
    /\ coroutines[i].kind = "antispam"
    /\ coroutines'[i] # coroutines[i]
    /\ \/ coroutines[i].pc = "restrict_chat_member"
          /\ coroutines'[i].pc = "delete_message"
       \/ coroutines[i].pc \in {"delete_message", "answer"}

\* C22: on a flagged message outside the cooldown whose restrict succeeds,
\* the handler's calls are, in this order, the restrict for five minutes, a
\* delete for every flagged id whatever the deletes before it returned, and
\* one notice with the unmute button of the sender; the handler's now is
\* recorded as the key's cooldown timestamp when the restrict has returned
\* and before the first delete, and the key's list is cleared after the last
\* delete and before the notice.
C22_MuteInOrder ==
    [][\A i \in TaskIds :
          SpamMuteStep(i) =>
             LET co  == coroutines[i]
                 co2 == coroutines'[i]
                 key == <<co.chat, co.user>>
                 all == ExpectedMute(co)
             IN  /\ Prefix(co.calls, all) /\ Prefix(co2.calls, all)
                 /\ Len(co2.calls) = Len(co.calls) + (IF co.pc = "answer" THEN 0 ELSE 1)
                 /\ co.pc = "restrict_chat_member" =>
                       /\ Len(co.calls) = 1
                       /\ recent_spam_mutes'[key] = co.seen
                       /\ user_messages'[key] = user_messages[key]
                 /\ co.pc # "restrict_chat_member" =>
                       recent_spam_mutes'[key] = recent_spam_mutes[key]
                 /\ co.pc = "delete_message" =>
                       /\ (co2.pc = "answer") = (Len(co.calls) = Len(all) - 1)
                       /\ co2.pc # "answer" =>
                             /\ co2.pc = "delete_message"
                             /\ user_messages'[key] = user_messages[key]
                       /\ co2.pc = "answer" => user_messages'[key] = <<>>
                 /\ co.pc = "answer" => co.calls = all]_vars

\* A run that muted is over: its restrict, its deletes and its notice
\* were issued, and the recorded timestamp is the handler's now although a
\* second passed before the restrict returned.
C22_Witness ==
    \E i \in TaskIds :
       /\ coroutines[i].kind = "antispam" /\ coroutines[i].pc = "done"
       /\ Prefix(ExpectedMute(coroutines[i]), coroutines[i].calls)
       /\ Len(coroutines[i].ids) > SPAM_MAX_MESSAGES
       /\ recent_spam_mutes[<<GroupChat, Bob>>] = coroutines[i].seen
       /\ coroutines[i].seen < now

\* The run flagged its message outside the cooldown and its restrict call
\* failed.
FailedMute(run) == Flagged(run) /\ ~RecentlyMuted(run) /\ ~run.env.restrict_ok

DeleteCalls(calls) == SelectSeq(calls, LAMBDA c : c.method = "delete_message")

\* C23: when the restrict call of the spam path fails, the handler goes on:
\* the key's cooldown timestamp stays as it was, the list keeps every id of
\* the flagged set, the calls start with the one restrict and hold no notice
\* and no delete of the spam path (the only delete there can be is the one
\* a filter stage issues for the message itself), the counter is incremented
\* and the filter stages run; and a flagged message handled right after
\* such a run issues the restrict again.
C23_FailedRestrictSwallowed ==
    [][AntispamStep =>
          /\ FailedMute(last') =>
                LET key == <<last'.msg.chat, last'.msg.from_user>>
                IN  /\ recent_spam_mutes' = recent_spam_mutes
                    /\ TrackedIds(user_messages', key) = last'.ids
                    /\ Len(RestrictCalls(last'.calls)) = 1
                    /\ Head(last'.calls).method = "restrict_chat_member"
                    /\ CallNotice(last'.msg.from_user) \notin Range(last'.calls)
                    /\ \A c \in Range(DeleteCalls(last'.calls)) :
                          /\ c.arg = last'.msg.message_id
                          /\ BannedWordHit(last') \/ last'.env.filters # <<>>
                    /\ Len(DeleteCalls(last'.calls)) <= 1
                    /\ ChainGoesOn(last')
          /\ (FailedMute(last) /\ Flagged(last')
                /\ last'.msg.from_user = last.msg.from_user) =>
                Len(RestrictCalls(last'.calls)) = 1]_vars

\* A second failed mute in a row, of a message with a banned word: the run
\* went on to the banned-word stage, which deleted the message.
C23_Witness ==
    /\ FailedMute(last)
    /\ Len(last.ids) = SPAM_MAX_MESSAGES + 2
    /\ BannedWordHit(last)
    /\ last.calls = <<CallRestrict(last.msg.chat, last.msg.from_user,
                                   last.at + SPAM_MUTE_DURATION, <<"mute">>),
                      CallDelete(last.msg.chat, last.msg.message_id)>>
    /\ recent_spam_mutes[LastKey] = NoTime

\* Run i muted: it was flagged outside the cooldown, its restrict call
\* returned and its notice was issued.
TaskMuted(i) ==
    /\ coroutines[i].kind = "antispam" /\ coroutines[i].flag
    /\ coroutines[i].pc \in {"answer", "update_message_stats", "done"}
    /\ Len(RestrictCalls(coroutines[i].calls)) = 1
    /\ CallNotice(coroutines[i].user) \in Range(coroutines[i].calls)

\* C24: of the handlers of one key that interleave at their awaits, no two
\* whose detections lie less than SPAM_MUTE_COOLDOWN_SECONDS apart both
\* restrict the sender and both post the notice.
C24_OneMutePerCooldown ==
    \A i \in TaskIds : \A j \in TaskIds \ {i} :
       (/\ TaskMuted(i) /\ TaskMuted(j)
        /\ coroutines[i].chat = coroutines[j].chat
        /\ coroutines[i].user = coroutines[j].user)
       => \/ coroutines[i].seen - coroutines[j].seen >= SPAM_MUTE_COOLDOWN_SECONDS
          \/ coroutines[j].seen - coroutines[i].seen >= SPAM_MUTE_COOLDOWN_SECONDS

\* Some run clears the key's list in this step, after a flagged set that
\* holds message id: a followed run resuming from its last delete, or a
\* run handled in one piece.
ClearedWith(key, id) ==
    \/ \E i \in TaskIds :
          /\ coroutines[i].kind = "antispam"
          /\ coroutines[i].pc = "delete_message" /\ coroutines'[i].pc = "answer"
          /\ <<coroutines[i].chat, coroutines[i].user>> = key
          /\ id \in Range(coroutines[i].ids)
    \/ /\ AntispamStep /\ MutedNow(last')
       /\ <<last'.msg.chat, last'.msg.from_user>> = key
       /\ id \in Range(last'.ids)

\* C25: an entry leaves a key's list only because it is pruned, being
\* SPAM_TIME_WINDOW seconds old or older, or because a run clears the list
\* after a flagged set that holds the entry's message id.
C25_NoArrivalLost ==
    [][\A key \in Keys : \A k \in 1..Len(user_messages[key]) :
          LET e == user_messages[key][k]
          IN  e \notin Range(user_messages'[key]) =>
                 \/ e[1] <= now - SPAM_TIME_WINDOW
                 \/ ClearedWith(key, MsgIdOf(e))]_vars

-----------------------------------------------------------------------------
(* Claims on the temporary close after a channel post                      *)

\* Run i closed the chat for a post and ended without having scheduled the
\* reopening: it never reached the sleep.
ClosedUnscheduled(i) ==
    /\ coroutines[i].kind = "post" /\ coroutines[i].pc = "done"
    /\ CallPermissions(coroutines[i].chat, FALSE) \in Range(coroutines[i].calls)
    /\ coroutines[i].seen = 0

\* No handler is in flight.
Quiescent == \A i \in TaskIds : coroutines[i].pc \in {"none", "done"}

\* C26: when every handler has ended, no chat is left with its send
\* permissions revoked by a post's run that scheduled no reopening, while
\* the persisted closed flag is not set.
C26_RestorationScheduled ==
    ~ \E i \in TaskIds :
         /\ ClosedUnscheduled(i)
         /\ Quiescent
         /\ ~permissions[coroutines[i].chat]
         /\ ~PersistedClosed(coroutines[i].chat)

\* Run j is of a post that arrived after the post of run i, while the chat
\* was closed for i; it has closed the chat again and its configured
\* duration, counted from its arrival, is not over.
LaterPostPending(i, j) ==
    /\ coroutines[j].kind = "post" /\ coroutines[j].chat = coroutines[i].chat
    /\ coroutines[j].pc \in {"send_post_message", "sleep"}
    /\ CallPermissions(coroutines[j].chat, FALSE) \in Range(coroutines[j].calls)
    /\ coroutines[i].at < coroutines[j].at
    /\ coroutines[j].at < coroutines[i].seen
    /\ now < coroutines[j].at + coroutines[j].value

\* C27: the scheduled reopen of a post does not restore the send
\* permissions while a later post, arrived during the close, has closed the
\* chat again and its duration is not over.
C27_LatestPostHolds ==
    [][\A i \in TaskIds :
          (/\ coroutines[i].kind = "post" /\ coroutines[i].pc = "open_chat"
           /\ coroutines'[i] # coroutines[i]
           /\ ~permissions[coroutines[i].chat]
           /\ permissions'[coroutines[i].chat])
          => ~ \E j \in TaskIds \ {i} : LaterPostPending(i, j)]_vars

-----------------------------------------------------------------------------
(* Claims on the prune step of the detector                                *)

\* The detector is called in this step.
DetectorStep == nextMsgId' # nextMsgId /\ last'.op = "detector"

\* C28 as stated: the call keeps, in their order, the entries that are at
\* most SPAM_TIME_WINDOW seconds old, the one exactly that old included,
\* and appends the arrival.
C28_BoundaryKept ==
    [][DetectorStep =>
          user_messages'[SpamKey] =
             Append(SelectSeq(user_messages[SpamKey],
                              LAMBDA e : e[1] >= now - SPAM_TIME_WINDOW),
                    <<now, nextMsgId>>)]_vars

\* C28 amended: the call drops exactly the entries that are SPAM_TIME_WINDOW
\* seconds old or older, keeps the others in their order and appends the
\* arrival, so that after the call every tracked entry is strictly newer
\* than now - SPAM_TIME_WINDOW.
C28_BoundaryDropped ==
    [][DetectorStep =>
          /\ user_messages'[SpamKey] =
                Append(SelectSeq(user_messages[SpamKey],
                                 LAMBDA e : e[1] > now - SPAM_TIME_WINDOW),
                       <<now, nextMsgId>>)
          /\ \A e \in Range(user_messages'[SpamKey]) :
                e[1] > now - SPAM_TIME_WINDOW]_vars

\* A call three seconds after an arrival: that arrival is no longer
\* tracked, a later one still is.
C28_Witness ==
    /\ last.op = "detector"
    /\ \E k \in 1..Len(arrivals) :
          /\ arrivals[k][1] = last.at - SPAM_TIME_WINDOW
          /\ arrivals[k] \notin Range(user_messages[SpamKey])
    /\ Len(user_messages[SpamKey]) > 1

-----------------------------------------------------------------------------
(* Claims on the per-user filters                                          *)

\* The rows of the table that the select returns for the run's message:
\* the sender's active filters of the chat.
Mine(run) ==
    {k \in 1..Len(run.filters) :
        /\ run.filters[k].chat_id = run.msg.chat
        /\ run.filters[k].user_id = run.msg.from_user
        /\ run.filters[k].is_active}

\* The rows among them that match the message.
Matching(run) ==
    IF get_message_text(run.msg) = <<>> THEN {}
    ELSE {k \in Mine(run) :
             should_filter_message(lower(get_message_text(run.msg)),
                                   run.filters[k])}

SetMin(S) == CHOOSE k \in S : \A j \in S : k <= j

SendCalls(calls) == SelectSeq(calls, LAMBDA c : c.method = "send_message")

\* C29: check_user_filters acts on the first of the sender's active filters
\* of the chat that matches, and on no other: one delete of the message,
\* before it one notification to the owner when that filter has notify set
\* and the owner is known, none otherwise; with no such filter matching,
\* whatever the other rows of the table, it issues no call.
C29_FirstMatchActs ==
    last.op = "filters" =>
        IF Matching(last) = {} THEN last.calls = <<>>
        ELSE LET f == last.filters[SetMin(Matching(last))]
                 owner == last.chat_row.activated_by
             IN  /\ DeleteCalls(last.calls)
                       = <<CallDelete(last.msg.chat, last.msg.message_id)>>
                 /\ Len(SendCalls(last.calls)) <= 1
                 /\ SendCalls(last.calls) # <<>> <=> (f.notify /\ owner # 0)
                 /\ SendCalls(last.calls) # <<>> =>
                       last.calls[1] = CallSend(owner, <<"filter_notice">>)
                 /\ Len(last.calls) = Len(SendCalls(last.calls)) + 1

\* Three rows match the message: an inactive one with notify, then an
\* active one without, then an active one with; the message is deleted and
\* the owner is not notified.
C29_Witness ==
    /\ last.op = "filters" /\ Len(last.filters) = 3
    /\ ~last.filters[1].is_active /\ last.filters[1].notify
    /\ last.filters[1].user_id = last.msg.from_user
    /\ should_filter_message(lower(get_message_text(last.msg)), last.filters[1])
    /\ Matching(last) = {2, 3}
    /\ ~last.filters[2].notify /\ last.filters[3].notify
    /\ last.chat_row.activated_by # 0
    /\ last.calls = <<CallDelete(last.msg.chat, last.msg.message_id)>>

\* The non-empty patterns of a filter, stripped and in lower case.
PatternsOf(f) ==
    {lower(strip(p)) : p \in Range(split_comma(f.pattern))} \ {<<>>}

\* The text of the message, its caption when it has no text, in lower case.
LowerTextOf(msg) == lower(IF msg.text # <<>> THEN msg.text ELSE msg.caption)

SomePatternIn(msg, f) == \E p \in PatternsOf(f) : contains(LowerTextOf(msg), p)

\* A block filter asks for the delete when some pattern is in the text, an
\* allow filter when none is.
AsksDelete(msg, f) ==
    \/ f.filter_type = "block" /\ SomePatternIn(msg, f)
    \/ f.filter_type = "allow" /\ ~SomePatternIn(msg, f)

\* C30: a message that reaches the per-user filter stage is deleted exactly
\* when one of the sender's active filters of the chat asks for it: a block
\* filter with a non-empty pattern that is, case ignored, a substring of the
\* text or caption, or an allow filter with no such pattern -- also when the
\* message has neither text nor caption.
C30_BlockAllow ==
    last.op = "filters" =>
        (DeleteCalls(last.calls) # <<>>
            <=> \E k \in Mine(last) : AsksDelete(last.msg, last.filters[k]))

\* The same for the messages that have a text or a caption.
FilterSemanticsWithText ==
    (last.op = "filters" /\ get_message_text(last.msg) # <<>>) =>
        (DeleteCalls(last.calls) # <<>>
            <=> \E k \in Mine(last) : AsksDelete(last.msg, last.filters[k]))

-----------------------------------------------------------------------------
(* Claims on the resolution of the target                                  *)

\* The target is resolved in this step.
ResolveStep == last'.op = "resolve" /\ last' # last

\* The cache key of an @username of the group.
NameKey(arg) == <<GroupChat, lower(lstrip_at(arg))>>

\* The value the cache holds under a key.
Cached(c, key) == (CHOOSE e \in c.data : e.key = key).value

\* The first source that answers, in the order reply, id, cache, mention,
\* platform; user_id = 0: none does.  lookup: the platform was asked.
FirstSource(msg, env, c) ==
    IF msg.reply_to # 0
    THEN [user_id |-> msg.reply_to, user_name |-> full_name(msg.reply_to),
          lookup |-> FALSE]
    ELSE IF msg.args = <<>>
    THEN [user_id |-> 0, user_name |-> <<>>, lookup |-> FALSE]
    ELSE IF isdigit(msg.args[1])
    THEN [user_id |-> to_int(msg.args[1]), user_name |-> <<"ID:">> \o msg.args[1],
          lookup |-> FALSE]
    ELSE IF Head(msg.args[1]) # "@"
    THEN [user_id |-> 0, user_name |-> <<>>, lookup |-> FALSE]
    ELSE IF NameKey(msg.args[1]) \in CacheKeys(c)
    THEN [user_id |-> Cached(c, NameKey(msg.args[1]))[1],
          user_name |-> Cached(c, NameKey(msg.args[1]))[2], lookup |-> FALSE]
    ELSE IF msg.text_mention # 0
    THEN [user_id |-> msg.text_mention,
          user_name |-> full_name(msg.text_mention), lookup |-> FALSE]
    ELSE IF env.get_chat.ok
    THEN [user_id |-> env.get_chat.id, user_name |-> env.get_chat.full_name,
          lookup |-> TRUE]
    ELSE [user_id |-> 0, user_name |-> <<>>, lookup |-> TRUE]

\* C31: for slash and bare-word commands alike the target is the answer of
\* the first source in the order reply, id, cache, mention, platform; the
\* answer of the platform is stored in the cache under the @username, and
\* nothing else changes what the cache holds, so that a cached @username
\* resolves to the cached user whatever the platform would answer.
C31_FirstSourceWins ==
    [][ResolveStep =>
          LET first == FirstSource(last'.msg, last'.env, username_cache)
          IN  /\ last'.user_id = first.user_id
              /\ last'.user_name = first.user_name
              /\ username_cache'.data =
                    IF first.lookup /\ first.user_id # 0
                    THEN username_cache.data
                            \cup {[key |-> NameKey(last'.msg.args[1]),
                                   value |-> <<first.user_id, first.user_name>>]}
                    ELSE username_cache.data]_vars

\* The same for the bare-word commands alone.
FirstSourceWinsForText ==
    [][(ResolveStep /\ last'.form = "text") =>
          LET first == FirstSource(last'.msg, last'.env, username_cache)
          IN  /\ last'.user_id = first.user_id
              /\ last'.user_name = first.user_name
              /\ username_cache'.data =
                    IF first.lookup /\ first.user_id # 0
                    THEN username_cache.data
                            \cup {[key |-> NameKey(last'.msg.args[1]),
                                   value |-> <<first.user_id, first.user_name>>]}
                    ELSE username_cache.data]_vars

-----------------------------------------------------------------------------
(* Claims on the routing of command messages                               *)

RouteStep == last'.op = "route" /\ last' # last

\* The text is a command of a handler's grammar: a slash moderation or warn
\* command, a bare-word moderation command, a "!" warn command or a report
\* command.
IsCommandText(text) ==
    \/ \E command \in ModCommands \cup WarnCommands : Command(text, SlashName(command))
    \/ regexp(text, {"!"}, TRUE, TEXT_CMD_PATTERN) # {}
    \/ regexp(text, {"!", "/"}, FALSE, WARN_CMD_PATTERN) # {}
    \/ regexp(text, {"!", "/"}, FALSE, REPORT_CMD_PATTERN) # {}

\* C32: a group message whose text is a moderation, warn or report command
\* is given to a command handler and not to antispam_handler, whoever sends
\* it and whether or not the commands are enabled: the spam windows and the
\* statistics are as before and no stage of the filter chain has run.
C32_CommandsBypassChain ==
    [][RouteStep /\ IsCommandText(last'.text) =>
          /\ last'.handler # "antispam_handler"
          /\ user_messages' = user_messages
          /\ message_stats' = message_stats
          /\ last'.stages = <<>>]_vars

\* A member's bare-word command while the commands are disabled has been
\* consumed silently, after a plain message of the same member was counted.
C32_Witness ==
    /\ last.op = "route"
    /\ last.handler = "text_moderation_command"
    /\ last.from_user = Bob
    /\ ~last.enabled
    /\ last.calls = <<>>
    /\ last.message_id = 2
    /\ Len(user_messages[<<GroupChat, Bob>>]) = 1
    /\ message_stats = 1

-----------------------------------------------------------------------------
(* Claims on the kick                                                      *)

KickStep == last'.command = "kick" /\ last' # last /\ "banned" \in DOMAIN last'

\* The positions of the calls of one method in a call log
CallsAt(calls, method) == {i \in 1..Len(calls) : calls[i].method = method}

\* C33: a kick issues the ban and then the unban (only if banned) of the
\* same target, the unban iff the ban succeeded, reports success only when
\* both succeeded, and does not leave the target banned once it completed.
C33_KickLeavesNoBan ==
    [][KickStep /\ "ban_chat_member" \in Methods(last'.calls) =>
          /\ CallsAt(last'.calls, "ban_chat_member") = {1}
          /\ (CallsAt(last'.calls, "unban_chat_member") # {}) = last'.env.call_ok
          /\ last'.env.call_ok =>
                /\ last'.calls[2] = CallUnban(last'.calls[1].chat, last'.calls[1].target)
                /\ last'.calls[2].tag = <<"only_if_banned">>
          /\ CallAnswer(<<"kick_report">>) \in Range(last'.calls) =>
                last'.env.call_ok /\ last'.env.unban_ok
          /\ ~last'.banned]_vars

\* The same without the last clause: order, condition and report of the
\* two calls.
KickCallsInOrder ==
    [][KickStep /\ "ban_chat_member" \in Methods(last'.calls) =>
          /\ CallsAt(last'.calls, "ban_chat_member") = {1}
          /\ (CallsAt(last'.calls, "unban_chat_member") # {}) = last'.env.call_ok
          /\ last'.env.call_ok =>
                last'.calls[2] = CallUnban(last'.calls[1].chat, last'.calls[1].target)
          /\ CallAnswer(<<"kick_report">>) \in Range(last'.calls) =>
                last'.env.call_ok /\ last'.env.unban_ok]_vars

-----------------------------------------------------------------------------
(* Claims on the duration of bans and mutes                                *)

\* The ban or mute call of a run, if it issued one
TimedCalls(calls) ==
    SelectSeq(calls, LAMBDA c : c.method \in {"ban_chat_member",
                                              "restrict_chat_member"})

\* The argument words after the target: all of them under a reply, all but
\* the first otherwise.
AfterTarget(msg) == IF msg.reply_to # 0 THEN msg.args ELSE Tail(msg.args)

\* The reason the handler of the run gives to its report
ReasonOf(run, c) ==
    IF run.op = "slash" THEN parse_command_args(run.msg).reason
    ELSE build_moderation_context(run.msg, run.env, c).reason

TimedStep ==
    /\ ModerationStep
    /\ last'.command \in {"ban", "mute"}
    /\ TimedCalls(last'.calls) # <<>>

\* C34: the ban or mute call carries the until-time now + duration iff the
\* first word after the target parses as a duration that is not zero; with
\* no such word, a word that is no duration or one that sums to zero the
\* call carries no until-time and every word after the target is the reason.
C34_UntilIffDuration ==
    [][TimedStep =>
          LET rem  == AfterTarget(last'.msg)
              d    == IF rem = <<>> THEN None ELSE parse_timedelta(rem[1])
              call == TimedCalls(last'.calls)[1]
          IN  IF d > 0
              THEN /\ call.arg = now + d
                   /\ ReasonOf(last', username_cache) = Tail(rem)
              ELSE /\ call.arg = 0
                   /\ ReasonOf(last', username_cache) = rem]_vars

\* A ban whose first word after the target is "0s" went out without an
\* until-time, at a second when a timed ban would have carried one.
C34_Witness ==
    /\ last.op \in {"slash", "text"}
    /\ last.command = "ban"
    /\ AfterTarget(last.msg) = <<ArgZero>>
    /\ TimedCalls(last.calls) # <<>>
    /\ TimedCalls(last.calls)[1].arg = 0
    /\ last.msg.message_id = 2

-----------------------------------------------------------------------------
(* Claims on the automatic ban that fails or is skipped                    *)

WarnAdded(run) == run.op = "warn" /\ run.command = "warn" /\ run.added

\* The automatic ban of the run did not go through: it was not attempted,
\* or the call raised.
BanNotDone(run) == CallAnswer(<<"warn_ban_report">>) \notin Range(run.calls)

WarnAddStep == nextMsgId' # nextMsgId /\ WarnAdded(last')

\* The target of the warn handled in this step, as the handler resolves it
TargetOfStep == warn_target(last'.msg, last'.env)

\* What add_warn leaves in the table for the warn handled in this step
RowsAdded ==
    add_warn(warns, GroupChat, TargetOfStep.user_id, TargetOfStep.username,
             last'.msg.from_user, last'.env).rows

\* The warn of this step names the target as the warn before it did, and
\* the platform answers the lookups as it did then.
SameTarget ==
    /\ last'.msg.reply_to = last.msg.reply_to
    /\ last'.msg.args = last.msg.args
    /\ last'.env.get_chat = last.env.get_chat
    /\ last'.env.enrich = last.env.enrich

\* The ban is attempted: the target has an id and the bot can restrict.
BanAttempted(run) == "ban_chat_member" \in Methods(run.calls)

-----------------------------------------------------------------------------
(* Claims on mutating calls the platform refuses                           *)

\* The calls of a run that change a membership
MutatingCalls(calls) ==
    SelectSeq(calls, LAMBDA c : c.method \in {"ban_chat_member",
                                              "restrict_chat_member",
                                              "unban_chat_member"})

\* A mutating call of the run raised: its only or first one, or the unban
\* of a kick after a ban that went through.
CallRaised(run) ==
    /\ MutatingCalls(run.calls) # <<>>
    /\ \/ ~run.env.call_ok
       \/ /\ run.op \in {"slash", "text"}
          /\ run.command = "kick"
          /\ ~run.env.unban_ok

\* The failure report of a handler: the answer with the exception's text
FailureReport(run) ==
    IF run.op = "button" THEN CallAlert(<<"failed">>)
    ELSE CASE run.command = "ban"    -> CallAnswer(<<"ban_failed">>)
           [] run.command = "mute"   -> CallAnswer(<<"mute_failed">>)
           [] run.command = "kick"   -> CallAnswer(<<"kick_failed">>)
           [] run.command = "unban"  -> CallAnswer(<<"unban_failed">>)
           [] run.command = "unmute" -> CallAnswer(<<"unmute_failed">>)

FailStep == last' # last /\ last'.op \in {"slash", "text", "button"}

\* C36: when a mutating call of a ban, mute, kick, unban or unmute raises,
\* by slash command, bare word or button, the run ends in the handler with
\* its failure report: what it issued is its mutating calls followed by
\* that one report, with no success report, no button and no edit.
C36_FailureReported ==
    [][FailStep /\ CallRaised(last') =>
          last'.calls = MutatingCalls(last'.calls) \o <<FailureReport(last')>>]_vars

\* A kick whose unban raised after the ban had gone through has ended with
\* the failure report.
C36_Witness ==
    /\ last.op \in {"slash", "text"}
    /\ last.command = "kick"
    /\ last.env.call_ok /\ ~last.env.unban_ok
    /\ Len(MutatingCalls(last.calls)) = 2
    /\ last.calls[Len(last.calls)] = CallAnswer(<<"kick_failed">>)

\* The unban button whose call raised has answered with the failure alert.
FailedButtonReached ==
    /\ last.op = "button"
    /\ ~last.env.call_ok
    /\ last.calls[Len(last.calls)] = CallAlert(<<"failed">>)

-----------------------------------------------------------------------------
(* Claims on the keys of the in-memory maps                                *)

\* The maps with every entry but the key's as at the start
OnlyKey(f, key, empty) == [k \in DOMAIN f |-> IF k = key THEN f[k] ELSE empty]

\* C37: handling a message of (chat, user) leaves the list and the cooldown
\* timestamp of every other key as they were, and what the detector answers
\* and what it leaves under the key do not depend on the other keys'
\* entries.
C37_OtherKeysUntouched ==
    [][AntispamStep =>
          LET key == <<last'.msg.chat, last'.msg.from_user>>
              alone == check_and_get_spam_messages(
                           OnlyKey(user_messages, key, <<>>), key,
                           last'.msg.message_id, now)
          IN  /\ \A k \in Keys \ {key} :
                    /\ user_messages'[k] = user_messages[k]
                    /\ recent_spam_mutes'[k] = recent_spam_mutes[k]
              /\ last'.spam = alone.spam
              /\ last'.ids = alone.ids]_vars

\* Bob has just been muted in one chat while his list in the other chat
\* and Carol's list hold arrivals.
C37_Witness ==
    /\ last.op = "antispam"
    /\ last.spam
    /\ last.msg.chat = GroupChat /\ last.msg.from_user = Bob
    /\ recent_spam_mutes[<<GroupChat, Bob>>] # NoTime
    /\ user_messages[<<GroupChat, Bob>>] = <<>>
    /\ user_messages[<<OtherChat, Bob>>] # <<>>
    /\ recent_spam_mutes[<<OtherChat, Bob>>] = NoTime

-----------------------------------------------------------------------------
(* Claims on the username cache                                            *)

CacheStep == last'.op = "cache" /\ nextMsgId' # nextMsgId

\* The position of the last write or read of a key in the history
LastTouch(log, key) ==
    CHOOSE i \in 1..Len(log) :
        log[i] = key /\ \A j \in (i + 1)..Len(log) : log[j] # key

\* The cached key written or read longest ago
LeastRecent(c, log) ==
    CHOOSE k \in CacheKeys(c) :
        \A other \in CacheKeys(c) : LastTouch(log, k) <= LastTouch(log, other)

\* No more entries than the capacity, one entry for a key, and the recency
\* list holds the cached keys, each once.
CacheShape(c) ==
    /\ Cardinality(c.data) <= CacheMaxSize
    /\ Cardinality(CacheKeys(c)) = Cardinality(c.data)
    /\ Range(c.order) = CacheKeys(c)
    /\ Len(c.order) = Cardinality(CacheKeys(c))

\* C38: after every write and read the cache holds at most maxsize entries
\* and its recency list holds exactly the cached keys, each once; a write of
\* a new key to a full cache evicts the key written or read longest ago,
\* and nothing else is ever removed.
C38_LruWithinCapacity ==
    [][CacheStep =>
          /\ CacheShape(username_cache')
          /\ IF /\ last'.kind = "store"
                /\ last'.key \notin CacheKeys(username_cache)
                /\ Cardinality(username_cache.data) = CacheMaxSize
             THEN CacheKeys(username_cache') =
                      (CacheKeys(username_cache)
                          \ {LeastRecent(username_cache, arrivals)})
                      \cup {last'.key}
             ELSE CacheKeys(username_cache') =
                      CacheKeys(username_cache)
                      \cup (IF last'.kind = "store" THEN {last'.key} ELSE {})]_vars

\* A write to the full cache has evicted a key that was written before the
\* key it kept, because the kept key was read in between.
C38_Witness ==
    /\ last.op = "cache" /\ last.kind = "store"
    /\ Len(arrivals) >= 4
    /\ Cardinality(username_cache.data) = CacheMaxSize
    /\ \E i \in 1..Len(arrivals) : \E j \in (i + 1)..Len(arrivals) :
          /\ arrivals[i] \in CacheKeys(username_cache)
          /\ arrivals[j] \notin CacheKeys(username_cache)
          /\ \A k \in 1..(i - 1) : arrivals[k] # arrivals[i]
          /\ \A k \in 1..(j - 1) : arrivals[k] # arrivals[j]

-----------------------------------------------------------------------------
(* Claims on the owner's statistics                                        *)

\* The rows of a chat whose day is one of the given days
RowsOfDays(rows, chat_id, days) ==
    {k \in 1..Len(rows) : rows[k].chat_id = chat_id /\ rows[k].date \in days}

\* C39: the 7-day statistic is the sum of the daily counts of the last 7
\* calendar days of that chat, today and the six days before it; rows of
\* older days and of other chats are not counted.
C39_SumOfLastSevenDays ==
    last.op = "stats" =>
        last.messages_week =
            sum_message_count(last.rows,
                RowsOfDays(last.rows, last.chat_id,
                           (today(last.at) - 6)..today(last.at)))

\* What the code computes: the sum over eight calendar days of that chat,
\* today and the seven days before it.
SumOfLastEightDays ==
    last.op = "stats" =>
        last.messages_week =
            sum_message_count(last.rows,
                RowsOfDays(last.rows, last.chat_id,
                           (today(last.at) - 7)..today(last.at)))

\* The statistic has left out the rows of another chat and counted a row
\* of this chat.
OtherChatLeftOut ==
    /\ last.op = "stats" /\ last.messages_week > 0
    /\ \E k \in 1..Len(last.rows) : last.rows[k].chat_id # last.chat_id

-----------------------------------------------------------------------------
(* Claims on format_timedelta                                              *)

\* The words of a text: its pieces between single spaces
RECURSIVE WordsOf(_)
WordsOf(text) ==
    IF \A i \in 1..Len(text) : text[i] # " " THEN <<text>>
    ELSE LET i == CHOOSE x \in 1..Len(text) :
                      text[x] = " " /\ \A y \in 1..(x - 1) : text[y] # " "
         IN  <<SubSeq(text, 1, i - 1)>> \o WordsOf(SubSeq(text, i + 1, Len(text)))

\* The components a duration is to show: value and unit, in order
Shown(total) ==
    LET d == total \div 86400
        h == (total % 86400) \div 3600
        m == (total % 3600) \div 60
        s == total % 60
    IN  SelectSeq(<<<<d, UnitDays>>, <<h, UnitHours>>, <<m, UnitMinutes>>>>,
                  LAMBDA c : c[1] # 0)
        \o (IF s # 0 /\ d = 0 THEN <<<<s, UnitSeconds>>>> ELSE <<>>)

\* The text reads as the given components: number, unit, number, unit, ...
ReadsAs(text, components) ==
    LET words == WordsOf(text)
    IN  /\ Len(words) = 2 * Len(components)
        /\ \A i \in 1..Len(components) :
              /\ isdigit(words[2 * i - 1])
              /\ to_int(words[2 * i - 1]) = components[i][1]
              /\ words[2 * i] = components[i][2]

\* C40: a duration under 60 s is rendered as its number of seconds;
\* otherwise the non-zero day, hour and minute components are rendered in
\* that order, joined by spaces, the seconds are appended only when they are
\* non-zero and the days are zero, and at least one component is shown.
C40_FormatComponents ==
    last.op = "format" =>
        IF last.total_seconds < 60
        THEN ReadsAs(last.text, <<<<last.total_seconds, UnitSeconds>>>>)
        ELSE /\ ReadsAs(last.text, Shown(last.total_seconds))
             /\ Shown(last.total_seconds) # <<>>

\* A duration with days and seconds has been rendered without its seconds.
C40_Witness ==
    /\ last.op = "format"
    /\ last.total_seconds >= 86400
    /\ last.total_seconds % 60 # 0
    /\ (last.total_seconds % 86400) \div 3600 # 0
    /\ Len(WordsOf(last.text)) = 6

=============================================================================
